---- MODULE Spec2Model ----
(***************************************************************************)
(* Model of the graph construction engine of parsed-graph-agent:           *)
(* graph.py (Graph, a wrapper of a networkx DiGraph), graph_builder.py     *)
(* (remove_edges, build_graphs), and the traversal orders and workflows of *)
(* documentation_workflow.py and reverse_documentation_workflow.py.        *)
(*                                                                         *)
(* build_graphs is modelled as one process whose position is pc; each      *)
(* action is one iteration of one of its loops, or one block of its body.  *)
(* Once it has returned, the documentation workflows run on its graphs;    *)
(* pc is then the node of the workflow that runs next.                     *)
(***************************************************************************)
EXTENDS Integers, Sequences, FiniteSets, TLC

VARIABLES
    cobol_json_list,   \* argument: the list of paragraph (block) records
    jcl_json_list,     \* argument: the list of job step records
    pc,                \* position inside build_graphs, then in a workflow
    ci,                \* index of the next record of cobol_json_list
    pi,                \* index of the current program in cobol_programs
    ji,                \* index of the next record of jcl_json_list
    cobol_programs,    \* ordered dict program_id -> ordered dict of paragraphs
    outer_cfg,         \* the outer graph
    inner,             \* the inner graph of the current program
    inner_cfg,         \* dict program_id -> finished inner graph
    dead_nodes,        \* nodes removed by the dead code pass of the program
    removed_edges,     \* edges removed by remove_edges for the program
    nodes_to_process,          \* forward workflow: node ids still to document
    current_node_id,           \* forward workflow: the selected node id, or None
    documented_nodes,          \* forward workflow: ordered dict node id -> text
    outer_nodes_to_process,    \* reverse workflow: outer node ids still to document
    current_outer_node_id,     \* reverse workflow: the selected node id, or None
    generated_documentation,   \* reverse workflow: ordered dict node id -> text
    reverse_orders,    \* the lists get_reverse_processing_order has returned
    supersteps,        \* the steps that the run of a workflow has taken
    suspended          \* the node coroutine waiting for the language model
                       \* (the node id it read, the awaits it has left), or None

\* the state dicts of the two documentation workflows
wfState == <<nodes_to_process, current_node_id, documented_nodes,
             outer_nodes_to_process, current_outer_node_id,
             generated_documentation, reverse_orders>>

\* the state of the two documentation workflows and of their runs
wfVars == <<wfState, supersteps, suspended>>

vars == <<cobol_json_list, jcl_json_list, pc, ci, pi, ji, cobol_programs,
          outer_cfg, inner, inner_cfg, dead_nodes, removed_edges,
          nodes_to_process, current_node_id, documented_nodes,
          outer_nodes_to_process, current_outer_node_id,
          generated_documentation, reverse_orders, supersteps, suspended>>

-----------------------------------------------------------------------------
(* Sequences and insertion-ordered dicts (a Python dict keeps the order in  *)
(* which its keys were first inserted; assigning to an existing key keeps   *)
(* the key's position).                                                     *)

Range(s) == {s[i] : i \in 1..Len(s)}

Contains(s, x) == \E i \in 1..Len(s) : s[i] = x

SeqRemove(s, x) == SelectSeq(s, LAMBDA y : y # x)

\* list(reversed(s))
Reverse(s) == [i \in 1..Len(s) |-> s[Len(s) + 1 - i]]

\* Python's None, and a value that is not None; a variable that holds a node
\* id or None holds one of the two
None == <<>>

Some(x) == <<x>>

SeqsUpTo(S, n) == UNION {[1..k -> S] : k \in 0..n}

\* the orders in which the elements of a set can be listed
Orderings(S) ==
    {s \in [1..Cardinality(S) -> S] : \A i, j \in 1..Cardinality(S) : s[i] = s[j] => i = j}

DictKeys(d) == [i \in 1..Len(d) |-> d[i].k]

DictHas(d, key) == \E i \in 1..Len(d) : d[i].k = key

DictGet(d, key) == d[CHOOSE i \in 1..Len(d) : d[i].k = key].v

DictSet(d, key, val) ==
    IF DictHas(d, key)
    THEN [i \in 1..Len(d) |-> IF d[i].k = key THEN [k |-> key, v |-> val] ELSE d[i]]
    ELSE Append(d, [k |-> key, v |-> val])

-----------------------------------------------------------------------------
(* Graph: nodes in insertion order, the attribute dict of each node, the    *)
(* successors of each node in insertion order, the type of each edge.       *)
(* The attribute dict of a node is its set of keys and the value of each    *)
(* key the builder writes; a value is meaningful only when its key is in    *)
(* keys.                                                                    *)

NoAttr ==
    [keys |-> {}, type |-> "", has_inner_cfg |-> FALSE, isPlaceholder |-> FALSE,
     jobName |-> "", stepName |-> "", name |-> ""]

\* dict.update(attr): the keys given are set, the others are kept
AttrUpdate(old, new) ==
    [keys |-> old.keys \cup new.keys,
     type |-> IF "type" \in new.keys THEN new.type ELSE old.type,
     has_inner_cfg |-> IF "has_inner_cfg" \in new.keys THEN new.has_inner_cfg
                       ELSE old.has_inner_cfg,
     isPlaceholder |-> IF "isPlaceholder" \in new.keys THEN new.isPlaceholder
                       ELSE old.isPlaceholder,
     jobName |-> IF "jobName" \in new.keys THEN new.jobName ELSE old.jobName,
     stepName |-> IF "stepName" \in new.keys THEN new.stepName ELSE old.stepName,
     name |-> IF "name" \in new.keys THEN new.name ELSE old.name]

EmptyFn == [x \in {} |-> x]

\* Graph.__init__
EmptyGraph == [nodes |-> <<>>, attr |-> EmptyFn, succ |-> EmptyFn, etype |-> EmptyFn]

NodeSet(g) == Range(g.nodes)

HasNode(g, n) == n \in NodeSet(g)

EdgeSet(g) == DOMAIN g.etype

HasEdge(g, u, v) == <<u, v>> \in EdgeSet(g)

\* Graph.add_node: a new node is appended, an existing one has its dict updated
AddNode(g, n, a) ==
    IF HasNode(g, n)
    THEN [g EXCEPT !.attr = [m \in NodeSet(g) |->
                                IF m = n THEN AttrUpdate(g.attr[m], a) ELSE g.attr[m]]]
    ELSE [nodes |-> Append(g.nodes, n),
          attr  |-> [m \in NodeSet(g) \cup {n} |->
                        IF m = n THEN AttrUpdate(NoAttr, a) ELSE g.attr[m]],
          succ  |-> [m \in NodeSet(g) \cup {n} |-> IF m = n THEN <<>> ELSE g.succ[m]],
          etype |-> g.etype]

\* add_edge changed to list the target again when the edge is already there
AddEdgeAgain(g, u, v, t) ==
    LET g1 == IF HasNode(g, u) THEN g ELSE AddNode(g, u, NoAttr)
        g2 == IF HasNode(g1, v) THEN g1 ELSE AddNode(g1, v, NoAttr)
    IN  [g2 EXCEPT
            !.succ  = [m \in NodeSet(g2) |->
                          IF m = u THEN Append(g2.succ[u], v) ELSE g2.succ[m]],
            !.etype = [e \in EdgeSet(g2) \cup {<<u, v>>} |->
                          IF e = <<u, v>> THEN t ELSE g2.etype[e]]]

\* Graph.add_edge: DiGraph.add_edge creates the endpoints it does not find
\* (without attributes), and an edge already present keeps its place and has
\* its attribute dict updated
AddEdge(g, u, v, t) ==
    LET g1 == IF HasNode(g, u) THEN g ELSE AddNode(g, u, NoAttr)
        g2 == IF HasNode(g1, v) THEN g1 ELSE AddNode(g1, v, NoAttr)
    IN  [g2 EXCEPT
            !.succ  = [m \in NodeSet(g2) |->
                          IF m = u /\ ~Contains(g2.succ[u], v)
                          THEN Append(g2.succ[u], v) ELSE g2.succ[m]],
            !.etype = [e \in EdgeSet(g2) \cup {<<u, v>>} |->
                          IF e = <<u, v>> THEN t ELSE g2.etype[e]]]

\* remove_edge changed to remove every edge that leaves u
RemoveEdgesOfSource(g, u, v) ==
    [g EXCEPT
        !.succ  = [m \in NodeSet(g) |-> IF m = u THEN <<>> ELSE g.succ[m]],
        !.etype = [e \in {f \in EdgeSet(g) : f[1] # u} |-> g.etype[e]]]

\* Graph.remove_edge
RemoveEdge(g, u, v) ==
    [g EXCEPT
        !.succ  = [m \in NodeSet(g) |->
                      IF m = u THEN SeqRemove(g.succ[u], v) ELSE g.succ[m]],
        !.etype = [e \in EdgeSet(g) \ {<<u, v>>} |-> g.etype[e]]]

\* Graph.remove_node: the node goes with its incoming and outgoing edges
RemoveNode(g, n) ==
    [nodes |-> SeqRemove(g.nodes, n),
     attr  |-> [m \in NodeSet(g) \ {n} |-> g.attr[m]],
     succ  |-> [m \in NodeSet(g) \ {n} |-> SeqRemove(g.succ[m], n)],
     etype |-> [e \in {f \in EdgeSet(g) : f[1] # n /\ f[2] # n} |-> g.etype[e]]]

\* Graph.in_degree
InDegree(g, n) == Cardinality({e \in EdgeSet(g) : e[2] = n})

\* Graph.number_of_nodes, Graph.number_of_edges
NumberOfNodes(g) == Len(g.nodes)

NumberOfEdges(g) == Cardinality(EdgeSet(g))

\* Graph.edges: the edges by source in node order, then by insertion order
RECURSIVE EdgesFrom(_, _)
EdgesFrom(g, i) ==
    IF i > Len(g.nodes) THEN <<>>
    ELSE [j \in 1..Len(g.succ[g.nodes[i]]) |-> <<g.nodes[i], g.succ[g.nodes[i]][j]>>]
         \o EdgesFrom(g, i + 1)

Edges(g) == EdgesFrom(g, 1)

-----------------------------------------------------------------------------
(* nx.find_cycle(G, orientation='original') as remove_edges.find_cycle uses *)
(* it. It runs nx.edge_dfs from each node in node order; edge_dfs keeps a   *)
(* stack of nodes and, per node, an iterator over its out-edges (pos), and  *)
(* yields each edge once. find_cycle keeps the edges of the active path     *)
(* (edges), the nodes on it (active), the head of the last edge accepted    *)
(* (prev, <<>> for None) and the nodes of finished runs (explored).         *)

\* the backtracking loop of find_cycle: pop edges of the active path until
\* its last head is the tail of the new edge; set.remove raises KeyError for
\* a head that is not active
RECURSIVE Backtrack(_, _, _)
Backtrack(edges, active, tail) ==
    IF edges = <<>>
    THEN [edges |-> <<>>, active |-> {tail}, raised |-> FALSE]
    ELSE LET popped == edges[Len(edges)]
             rest   == SubSeq(edges, 1, Len(edges) - 1)
         IN  IF popped[2] \notin active
             THEN [edges |-> rest, active |-> active, raised |-> TRUE]
             ELSE IF rest # <<>> /\ tail = rest[Len(rest)][2]
                  THEN [edges |-> rest, active |-> active \ {popped[2]}, raised |-> FALSE]
                  ELSE Backtrack(rest, active \ {popped[2]}, tail)

\* the part of the edge list that find_cycle returns: from the first edge
\* whose tail is final_node (the last edge alone when there is none)
CycleFrom(cycle, final_node) ==
    LET I == {i \in 1..Len(cycle) : cycle[i][1] = final_node}
        first == IF I = {} THEN Len(cycle) ELSE CHOOSE i \in I : \A j \in I : i <= j
    IN  SubSeq(cycle, first, Len(cycle))

\* one run of edge_dfs from one start node, with the body of find_cycle's
\* loop applied to each edge it yields
RECURSIVE EdgeDfs(_, _, _)
EdgeDfs(g, explored, st) ==
    IF st.stack = <<>>
    THEN [found |-> FALSE, raised |-> FALSE, cycle |-> <<>>, seen |-> st.seen]
    ELSE
      LET cur == st.stack[Len(st.stack)]
          p   == st.pos[cur]
      IN
      IF p >= Len(g.succ[cur])
      THEN EdgeDfs(g, explored, [st EXCEPT !.stack = SubSeq(@, 1, Len(@) - 1)])
      ELSE
        LET head == g.succ[cur][p + 1]
            edge == <<cur, head>>
            st1  == [st EXCEPT !.pos[cur] = p + 1]
        IN
        IF edge \in st.visited_edges
        THEN EdgeDfs(g, explored, st1)
        ELSE
          LET st2 == [st1 EXCEPT !.visited_edges = @ \cup {edge},
                                 !.stack = Append(@, head)]
          IN
          IF head \in explored
          THEN EdgeDfs(g, explored, st2)
          ELSE
            LET bt == IF st2.prev # <<>> /\ cur # st2.prev[1]
                      THEN Backtrack(st2.edges, st2.active, cur)
                      ELSE [edges |-> st2.edges, active |-> st2.active, raised |-> FALSE]
                edges2 == Append(bt.edges, edge)
            IN
            IF bt.raised
            THEN [found |-> FALSE, raised |-> TRUE, cycle |-> <<>>, seen |-> st.seen]
            ELSE IF head \in bt.active
            THEN [found |-> TRUE, raised |-> FALSE,
                  cycle |-> CycleFrom(edges2, head), seen |-> st.seen]
            ELSE EdgeDfs(g, explored,
                         [st2 EXCEPT !.edges = edges2,
                                     !.seen = @ \cup {head},
                                     !.active = bt.active \cup {head},
                                     !.prev = <<head>>])

RECURSIVE FindCycleLoop(_, _, _)
FindCycleLoop(g, i, explored) ==
    IF i > Len(g.nodes)
    THEN [found |-> FALSE, raised |-> FALSE, cycle |-> <<>>, seen |-> {}]
    ELSE
      LET start == g.nodes[i]
      IN
      IF start \in explored
      THEN FindCycleLoop(g, i + 1, explored)
      ELSE
        LET r == EdgeDfs(g, explored,
                         [stack |-> <<start>>,
                          pos |-> [n \in NodeSet(g) |-> 0],
                          visited_edges |-> {},
                          edges |-> <<>>,
                          seen |-> {start},
                          active |-> {start},
                          prev |-> <<>>])
        IN  IF r.found \/ r.raised THEN r
            ELSE FindCycleLoop(g, i + 1, explored \cup r.seen)

\* nx.find_cycle: found with the cycle's edges, or not found (NetworkXNoCycle)
NxFindCycle(g) == FindCycleLoop(g, 1, {})

\* find_cycle changed to take a cycle of one edge (a self-loop) for no cycle
find_cycle_no_self_loop(g) ==
    LET r == NxFindCycle(g)
    IN  [found  |-> r.found /\ Len(r.cycle) > 1,
         raised |-> r.raised,
         edge   |-> IF r.found THEN r.cycle[Len(r.cycle)] ELSE <<>>]

\* remove_edges.find_cycle: the last edge of the cycle found, or None
find_cycle(g) ==
    LET r == NxFindCycle(g)
    IN  [found  |-> r.found,
         raised |-> r.raised,
         edge   |-> IF r.found THEN r.cycle[Len(r.cycle)] ELSE <<>>]

-----------------------------------------------------------------------------
(* nx.topological_sort: Kahn's algorithm by generations. The nodes of       *)
(* in-degree 0 in node order form the first generation; a node joins the    *)
(* next generation when its last predecessor has been listed.               *)

RECURSIVE TopoChildren(_, _, _, _)
\* the loop over the children of one node: indeg is decremented, and a child
\* reaching 0 is appended to the next generation
TopoChildren(children, j, indeg, nxt) ==
    IF j > Len(children) THEN [indeg |-> indeg, nxt |-> nxt]
    ELSE LET c == children[j]
             d == indeg[c] - 1
         IN  TopoChildren(children, j + 1, [indeg EXCEPT ![c] = d],
                          IF d = 0 THEN Append(nxt, c) ELSE nxt)

RECURSIVE TopoGeneration(_, _, _, _, _)
\* the loop over the nodes of one generation
TopoGeneration(g, gen, i, indeg, nxt) ==
    IF i > Len(gen) THEN [indeg |-> indeg, nxt |-> nxt]
    ELSE LET r == TopoChildren(g.succ[gen[i]], 1, indeg, nxt)
         IN  TopoGeneration(g, gen, i + 1, r.indeg, r.nxt)

RECURSIVE TopoLoop(_, _, _, _)
TopoLoop(g, gen, indeg, order) ==
    IF gen = <<>>
    THEN [ok |-> \A n \in NodeSet(g) : indeg[n] = 0, order |-> order]
    ELSE LET r == TopoGeneration(g, gen, 1, indeg, <<>>)
         IN  TopoLoop(g, r.nxt, r.indeg, order \o gen)

\* ok = FALSE stands for NetworkXUnfeasible
topological_sort(g) ==
    LET indeg == [n \in NodeSet(g) |-> InDegree(g, n)]
    IN  TopoLoop(g, SelectSeq(g.nodes, LAMBDA n : indeg[n] = 0), indeg, <<>>)

-----------------------------------------------------------------------------
(* The input records. A record is a Python dict: keys is the set of the    *)
(* keys it has among those build_graphs indexes without a default; the     *)
(* lists read with .get(key, []) are empty when the key is absent.         *)

\* an entry of perform_targets: a dict that has the key target_name, or not
PerformEntry(keys, target_name) == [keys |-> keys, target_name |-> target_name]

\* the entries {'target_name': n} for the names n of a list
Performs(names) == [i \in 1..Len(names) |-> PerformEntry({"target_name"}, names[i])]

\* the values of target_name of a list of entries
TargetNames(entries) == [i \in 1..Len(entries) |-> entries[i].target_name]

\* a paragraph record: identification_division.program_id, procedure_division
\* (the key procedure_division), procedure_division.paragraph.paragraph_name,
\* .perform_targets (a list of entries), .goto_targets (a list of names), and
\* called_programs
CobolRecord(keys, prog, para, performs, gotos, called) ==
    [keys |-> keys, program_id |-> prog, paragraph_name |-> para,
     perform_targets |-> performs, goto_targets |-> gotos,
     called_programs |-> called]

\* the value of job['step']
StepDict(keys, stepName, programId) ==
    [keys |-> keys, stepName |-> stepName, programId |-> programId]

\* a job step record
JclRecord(keys, jobName, step) == [keys |-> keys, jobName |-> jobName, step |-> step]

\* f"{prog_id}:{p}" and f"{job_name}:{step['stepName']}"
NodeId(owner, name) == owner \o ":" \o name

-----------------------------------------------------------------------------
(* build_graphs, block by block                                            *)

\* the collection changed to read the first paragraph only
AllCalledProgramsFirst(paragraphs) ==
    IF paragraphs = <<>> THEN {} ELSE Range(paragraphs[1].v.called_programs)

\* the loop over the paragraphs of a program that collects called_programs
\* into the set all_called_programs
AllCalledPrograms(paragraphs) ==
    UNION {Range(paragraphs[i].v.called_programs) : i \in 1..Len(paragraphs)}

RECURSIVE AddParagraphNodes(_, _, _, _)
\* the loop that adds one node per paragraph
AddParagraphNodes(g, prog_id, paragraphs, i) ==
    IF i > Len(paragraphs) THEN g
    ELSE AddParagraphNodes(
             AddNode(g, NodeId(prog_id, paragraphs[i].k),
                     [NoAttr EXCEPT
                         !.keys = {"name", "code_with_comments",
                                   "code_without_comments", "type"},
                         !.name = paragraphs[i].k,
                         !.type = "paragraph"]),
             prog_id, paragraphs, i + 1)

RECURSIVE AddPerformEdges(_, _, _, _, _)
\* the loop over perform_targets; the target INLINE is skipped, and an entry
\* without target_name raises KeyError with the edges added so far
AddPerformEdges(g, prog_id, src, targets, j) ==
    IF j > Len(targets) THEN [g |-> g, raised |-> FALSE]
    ELSE IF "target_name" \notin targets[j].keys THEN [g |-> g, raised |-> TRUE]
    ELSE AddPerformEdges(
             IF targets[j].target_name = "INLINE" THEN g
             ELSE AddEdge(g, src, NodeId(prog_id, targets[j].target_name), "PERFORM"),
             prog_id, src, targets, j + 1)

RECURSIVE AddGotoEdgesUnqualified(_, _, _, _, _)
\* the loop over goto_targets changed to use the target name as the node id
AddGotoEdgesUnqualified(g, prog_id, src, targets, j) ==
    IF j > Len(targets) THEN g
    ELSE AddGotoEdgesUnqualified(AddEdge(g, src, targets[j], "GOTO"),
                                 prog_id, src, targets, j + 1)

RECURSIVE AddGotoEdges(_, _, _, _, _)
\* the loop over goto_targets
AddGotoEdges(g, prog_id, src, targets, j) ==
    IF j > Len(targets) THEN g
    ELSE AddGotoEdges(AddEdge(g, src, NodeId(prog_id, targets[j]), "GOTO"),
                      prog_id, src, targets, j + 1)

RECURSIVE AddParagraphEdgesGotoFirst(_, _, _, _)
\* the loop changed to add the GOTO edges of a paragraph before its PERFORM
\* edges
AddParagraphEdgesGotoFirst(g, prog_id, paragraphs, i) ==
    IF i > Len(paragraphs) THEN [g |-> g, raised |-> FALSE]
    ELSE LET src == NodeId(prog_id, paragraphs[i].k)
             g1  == AddGotoEdges(g, prog_id, src, paragraphs[i].v.goto_targets, 1)
             p   == AddPerformEdges(g1, prog_id, src, paragraphs[i].v.perform_targets, 1)
         IN  IF p.raised THEN p
             ELSE AddParagraphEdgesGotoFirst(p.g, prog_id, paragraphs, i + 1)

RECURSIVE AddParagraphEdges(_, _, _, _)
\* the loop that adds the PERFORM edges, then the GOTO edges, of each
\* paragraph; it ends where a PERFORM entry raises
AddParagraphEdges(g, prog_id, paragraphs, i) ==
    IF i > Len(paragraphs) THEN [g |-> g, raised |-> FALSE]
    ELSE LET src == NodeId(prog_id, paragraphs[i].k)
             p   == AddPerformEdges(g, prog_id, src, paragraphs[i].v.perform_targets, 1)
             g2  == AddGotoEdges(p.g, prog_id, src, paragraphs[i].v.goto_targets, 1)
         IN  IF p.raised THEN p
             ELSE AddParagraphEdges(g2, prog_id, paragraphs, i + 1)

\* the inner graph of a program as built before the dead code pass, or as
\* far as it was built when a PERFORM entry raised
BuildInner(prog_id, paragraphs) ==
    AddParagraphEdges(AddParagraphNodes(EmptyGraph, prog_id, paragraphs, 1),
                      prog_id, paragraphs, 1)

RECURSIVE DeadCodeLoopShort(_, _, _, _, _)
\* the dead code loop changed to stop before the last node of the list
DeadCodeLoopShort(g, snapshot, i, entry, dead) ==
    IF i >= Len(snapshot) THEN [g |-> g, dead |-> dead]
    ELSE LET node == snapshot[i]
         IN  IF node # entry /\ InDegree(g, node) = 0
             THEN DeadCodeLoopShort(RemoveNode(g, node), snapshot, i + 1, entry,
                                    Append(dead, node))
             ELSE DeadCodeLoopShort(g, snapshot, i + 1, entry, dead)

RECURSIVE DeadCodeLoopEntryToo(_, _, _, _, _)
\* the dead code loop changed to treat the entry node like every other node
DeadCodeLoopEntryToo(g, snapshot, i, entry, dead) ==
    IF i > Len(snapshot) THEN [g |-> g, dead |-> dead]
    ELSE LET node == snapshot[i]
         IN  IF InDegree(g, node) = 0
             THEN DeadCodeLoopEntryToo(RemoveNode(g, node), snapshot, i + 1, entry,
                                       Append(dead, node))
             ELSE DeadCodeLoopEntryToo(g, snapshot, i + 1, entry, dead)

RECURSIVE DeadCodeLoop(_, _, _, _, _)
\* the loop over list(inner.nodes()), a copy taken before the loop: a node
\* other than entry whose in-degree is 0 when it is visited is removed
DeadCodeLoop(g, snapshot, i, entry, dead) ==
    IF i > Len(snapshot) THEN [g |-> g, dead |-> dead]
    ELSE LET node == snapshot[i]
         IN  IF node # entry /\ InDegree(g, node) = 0
             THEN DeadCodeLoop(RemoveNode(g, node), snapshot, i + 1, entry,
                               Append(dead, node))
             ELSE DeadCodeLoop(g, snapshot, i + 1, entry, dead)

\* the dead code pass changed to remove nothing
RemoveDeadNothing(g, prog_id) == [g |-> g, dead |-> <<>>]

\* the dead code pass changed to run its loop whether or not the ENTRY node
\* exists
RemoveDeadAlways(g, prog_id) ==
    DeadCodeLoop(g, g.nodes, 1, NodeId(prog_id, "ENTRY"), <<>>)

\* the dead code pass: nothing is done when the ENTRY node does not exist
RemoveDead(g, prog_id) ==
    LET entry == NodeId(prog_id, "ENTRY")
    IN  IF HasNode(g, entry)
        THEN DeadCodeLoop(g, g.nodes, 1, entry, <<>>)
        ELSE [g |-> g, dead |-> <<>>]

RECURSIVE AddCalls(_, _, _, _)
\* the loop over called_programs_list
AddCalls(g, prog_id, callees, i) ==
    IF i > Len(callees) THEN g
    ELSE AddCalls(
             AddEdge(AddNode(g, callees[i],
                             [NoAttr EXCEPT !.keys = {"type"}, !.type = "program"]),
                     prog_id, callees[i], "CALL"),
             prog_id, callees, i + 1)

\* where build_graphs continues when the loop with index k is entered
JclPc(k) == IF k <= Len(jcl_json_list) THEN "jcl" ELSE "finish"

ProgramPc(programs, k) == IF k <= Len(programs) THEN "program" ELSE JclPc(1)

AggregatePc(k) ==
    IF k <= Len(cobol_json_list) THEN "aggregate" ELSE ProgramPc(cobol_programs', 1)

InitFrom(CobolLists, JclLists) ==
    /\ cobol_json_list \in CobolLists
    /\ jcl_json_list \in JclLists
    /\ pc = IF cobol_json_list # <<>> THEN "aggregate" ELSE JclPc(1)
    /\ ci = 1
    /\ pi = 1
    /\ ji = 1
    /\ cobol_programs = <<>>
    /\ outer_cfg = EmptyGraph
    /\ inner = EmptyGraph
    /\ inner_cfg = EmptyFn
    /\ dead_nodes = <<>>
    /\ removed_edges = <<>>
    /\ nodes_to_process = <<>>
    /\ current_node_id = None
    /\ documented_nodes = <<>>
    /\ outer_nodes_to_process = <<>>
    /\ current_outer_node_id = None
    /\ generated_documentation = <<>>
    /\ reverse_orders = <<>>
    /\ supersteps = 0
    /\ suspended = None

\* one iteration of the loop that groups the paragraphs by program_id. A
\* record without program_id raises KeyError; the first record of a program
\* raises AttributeError when it has no procedure_division, before the
\* program is entered in cobol_programs; a record without paragraph_name
\* raises KeyError after that
Aggregate ==
    /\ pc = "aggregate"
    /\ LET rec == cobol_json_list[ci]
           prog_id == rec.program_id
           programs == IF DictHas(cobol_programs, prog_id) THEN cobol_programs
                       ELSE DictSet(cobol_programs, prog_id, <<>>)
       IN  IF "program_id" \notin rec.keys
           THEN /\ pc' = "raised"
                /\ UNCHANGED <<ci, cobol_programs>>
           ELSE IF ~DictHas(cobol_programs, prog_id) /\ "procedure_division" \notin rec.keys
           THEN /\ pc' = "raised"
                /\ UNCHANGED <<ci, cobol_programs>>
           ELSE IF ~({"procedure_division", "paragraph_name"} \subseteq rec.keys)
           THEN /\ pc' = "raised"
                /\ cobol_programs' = programs
                /\ UNCHANGED ci
           ELSE /\ cobol_programs' =
                       DictSet(programs, prog_id,
                               DictSet(DictGet(programs, prog_id), rec.paragraph_name, rec))
                /\ ci' = ci + 1
                /\ pc' = AggregatePc(ci + 1)
    /\ UNCHANGED <<cobol_json_list, jcl_json_list, pi, ji, outer_cfg, inner,
                   inner_cfg, dead_nodes, removed_edges>>
    /\ UNCHANGED wfVars

\* the head of the loop over the programs: the program node of the outer
\* graph, and the nodes and edges of the inner graph; a PERFORM entry without
\* target_name raises KeyError
BuildInnerGraph ==
    /\ pc = "program"
    /\ LET prog_id == cobol_programs[pi].k
           paragraphs == cobol_programs[pi].v
       IN  /\ outer_cfg' = AddNode(outer_cfg, prog_id,
                                   [NoAttr EXCEPT !.keys = {"type", "has_inner_cfg"},
                                                  !.type = "program",
                                                  !.has_inner_cfg = (paragraphs # <<>>)])
           /\ inner' = BuildInner(prog_id, paragraphs).g
           /\ IF BuildInner(prog_id, paragraphs).raised
              THEN /\ pc' = "raised"
                   /\ UNCHANGED <<dead_nodes, removed_edges>>
              ELSE /\ pc' = "dead_code"
                   /\ dead_nodes' = <<>>
                   /\ removed_edges' = <<>>
    /\ UNCHANGED <<cobol_json_list, jcl_json_list, ci, pi, ji, cobol_programs, inner_cfg>>
    /\ UNCHANGED wfVars

\* the dead code pass of the current program
RemoveDeadCode ==
    /\ pc = "dead_code"
    /\ LET r == RemoveDead(inner, cobol_programs[pi].k)
       IN  /\ inner' = r.g
           /\ dead_nodes' = r.dead
    /\ pc' = "break_cycles"
    /\ UNCHANGED <<cobol_json_list, jcl_json_list, ci, pi, ji, cobol_programs,
                   outer_cfg, inner_cfg, removed_edges>>
    /\ UNCHANGED wfVars

\* remove_edges: one test of its while loop, with the body when a cycle is
\* found; when none is found remove_edges returns and the inner graph is
\* stored in inner_cfg
RemoveEdgesStep ==
    /\ pc = "break_cycles"
    /\ LET c == find_cycle(inner)
       IN  IF c.raised
           THEN /\ pc' = "raised"
                /\ UNCHANGED <<inner, removed_edges, inner_cfg>>
           ELSE IF c.found
           THEN /\ inner' = RemoveEdge(inner, c.edge[1], c.edge[2])
                /\ removed_edges' = Append(removed_edges, c.edge)
                /\ UNCHANGED <<pc, inner_cfg>>
           ELSE /\ inner_cfg' =
                       [q \in DOMAIN inner_cfg \cup {cobol_programs[pi].k} |->
                           IF q = cobol_programs[pi].k THEN inner ELSE inner_cfg[q]]
                /\ pc' = "call_edges"
                /\ UNCHANGED <<inner, removed_edges>>
    /\ UNCHANGED <<cobol_json_list, jcl_json_list, ci, pi, ji, cobol_programs,
                   outer_cfg, dead_nodes>>
    /\ UNCHANGED wfVars

\* a step of the loop of remove_edges whatever find_cycle returns: an edge
\* of the graph, None, or an error
RemoveEdgesAny ==
    /\ pc = "break_cycles"
    /\ \/ \E e \in EdgeSet(inner) :
             /\ inner' = RemoveEdge(inner, e[1], e[2])
             /\ removed_edges' = Append(removed_edges, e)
             /\ UNCHANGED <<pc, inner_cfg>>
       \/ /\ inner_cfg' =
                 [q \in DOMAIN inner_cfg \cup {cobol_programs[pi].k} |->
                     IF q = cobol_programs[pi].k THEN inner ELSE inner_cfg[q]]
          /\ pc' = "call_edges"
          /\ UNCHANGED <<inner, removed_edges>>
       \/ /\ pc' = "raised"
          /\ UNCHANGED <<inner, removed_edges, inner_cfg>>
    /\ UNCHANGED <<cobol_json_list, jcl_json_list, ci, pi, ji, cobol_programs,
                   outer_cfg, dead_nodes>>
    /\ UNCHANGED wfVars

\* the CALL edges changed to come from the paragraphs that are still nodes of
\* the inner graph only
AddCallEdgesOfSurvivors ==
    /\ pc = "call_edges"
    /\ LET prog_id == cobol_programs[pi].k
           survivors == SelectSeq(cobol_programs[pi].v,
                                  LAMBDA e : HasNode(inner, NodeId(prog_id, e.k)))
       IN  \E called_programs_list \in Orderings(AllCalledPrograms(survivors)) :
               outer_cfg' = AddCalls(outer_cfg, prog_id, called_programs_list, 1)
    /\ pi' = pi + 1
    /\ pc' = ProgramPc(cobol_programs, pi + 1)
    /\ UNCHANGED <<cobol_json_list, jcl_json_list, ci, ji, cobol_programs, inner,
                   inner_cfg, dead_nodes, removed_edges>>
    /\ UNCHANGED wfVars

\* the CALL edges of the current program; list(all_called_programs) lists a
\* set of strings, in an order the build does not determine
AddCallEdges ==
    /\ pc = "call_edges"
    /\ \E called_programs_list \in Orderings(AllCalledPrograms(cobol_programs[pi].v)) :
           outer_cfg' = AddCalls(outer_cfg, cobol_programs[pi].k, called_programs_list, 1)
    /\ pi' = pi + 1
    /\ pc' = ProgramPc(cobol_programs, pi + 1)
    /\ UNCHANGED <<cobol_json_list, jcl_json_list, ci, ji, cobol_programs, inner,
                   inner_cfg, dead_nodes, removed_edges>>
    /\ UNCHANGED wfVars

\* the test that skips a job step record: no jobName or no step
SkipsJobAnd(job) == "jobName" \notin job.keys /\ "step" \notin job.keys

SkipsJob(job) == "jobName" \notin job.keys \/ "step" \notin job.keys

\* the job node: added when no node of the outer graph has the job's name
AddJobNode(g, job_name) ==
    IF HasNode(g, job_name) THEN g
    ELSE AddNode(g, job_name,
                 [NoAttr EXCEPT !.keys = {"type", "jobName"},
                                !.type = "jcl_job",
                                !.jobName = job_name])

\* the step node, with the attributes of the step
AddStepNode(g, step_id, job_name, step) ==
    AddNode(g, step_id,
            [NoAttr EXCEPT
                !.keys = {"type", "jobName", "stepName", "stepNumber", "datasets",
                          "codeWithComments", "codeWithoutComments"},
                !.type = "jcl_step",
                !.jobName = job_name,
                !.stepName = step.stepName])

\* the link changed to leave the placeholder mark out
LinkStepToProgramUnmarked(g, step_id, prog_id) ==
    AddEdge(IF HasNode(g, prog_id) THEN g
            ELSE AddNode(g, prog_id, [NoAttr EXCEPT !.keys = {"type"}, !.type = "program"]),
            step_id, prog_id, "EXECUTES")

\* the link from the step to its program: a program that has no node yet
\* gets a placeholder node
LinkStepToProgram(g, step_id, prog_id) ==
    AddEdge(IF HasNode(g, prog_id) THEN g
            ELSE AddNode(g, prog_id,
                         [NoAttr EXCEPT !.keys = {"type", "isPlaceholder"},
                                        !.type = "program",
                                        !.isPlaceholder = TRUE]),
            step_id, prog_id, "EXECUTES")

\* one iteration of the loop over the job step records; a step without
\* stepName or programId raises KeyError
ProcessJclJob ==
    /\ pc = "jcl"
    /\ LET job == jcl_json_list[ji]
           job_name == job.jobName
           step == job.step
           step_id == NodeId(job_name, step.stepName)
           with_step == AddStepNode(AddJobNode(outer_cfg, job_name), step_id, job_name, step)
       IN  IF SkipsJob(job)
           THEN /\ ji' = ji + 1
                /\ pc' = JclPc(ji + 1)
                /\ UNCHANGED outer_cfg
           ELSE IF "stepName" \notin step.keys
           THEN /\ pc' = "raised"
                /\ UNCHANGED <<ji, outer_cfg>>
           ELSE IF "programId" \notin step.keys
           THEN /\ pc' = "raised"
                /\ outer_cfg' = with_step
                /\ UNCHANGED ji
           ELSE /\ outer_cfg' = LinkStepToProgram(with_step, step_id, step.programId)
                /\ ji' = ji + 1
                /\ pc' = JclPc(ji + 1)
    /\ UNCHANGED <<cobol_json_list, jcl_json_list, ci, pi, cobol_programs, inner,
                   inner_cfg, dead_nodes, removed_edges>>
    /\ UNCHANGED wfVars

-----------------------------------------------------------------------------
(* Visualisation.  What a call does depends on what the interpreter finds:  *)
(* whether output/images can be created, whether pyvis can be imported,     *)
(* whether matplotlib can be imported, and whether the file of a drawing    *)
(* can be written.                                                          *)

Environments == [dir : BOOLEAN, pyvis : BOOLEAN, matplotlib : BOOLEAN]

\* Network.from_nx(graph._graph): pyvis reads the graph through nodes(data)
\* and edges(data) and writes its defaults into the dicts it is handed, so
\* the attribute dict of every node of the graph has the key size after it
\* (the dict of an edge gets a width in the same way; an edge of this graph
\* carries its type only)
from_nx(graph) ==
    [graph EXCEPT !.attr =
        [n \in NodeSet(graph) |-> [graph.attr[n] EXCEPT !.keys = @ \cup {"size"}]]]

\* _static_graph_visualization: the import of matplotlib raises when it is
\* not installed, and savefig raises when the file cannot be written; the
\* drawing leaves the graph as it is
static_graph_visualization(graph, env, saved) ==
    [g |-> graph, raised |-> ~env.matplotlib \/ ~saved]

\* debug_print_graph: os.makedirs raises when output/images cannot be
\* created; the interactive drawing is made with pyvis, and when pyvis
\* cannot be imported, or use_interactive is false, the static one is made.
\* save_graph comes after from_nx: when the file cannot be written the call
\* raises with the graph already changed
debug_print_graph(graph, use_interactive, env, saved) ==
    IF ~env.dir
    THEN [g |-> graph, raised |-> TRUE]
    ELSE IF use_interactive /\ env.pyvis
    THEN [g |-> from_nx(graph), raised |-> ~saved]
    ELSE static_graph_visualization(graph, env, saved)

RECURSIVE DrawFrom(_, _, _, _, _, _)
\* the loop of debug_print_graph_dict from the i-th key on: the graphs are
\* drawn in the order of the dict until a call raises; the files of the first
\* `writable` graphs can be written
DrawFrom(graph_dict, order, i, use_interactive, env, writable) ==
    IF i > Len(order) THEN [graphs |-> graph_dict, raised |-> FALSE]
    ELSE LET drawn == debug_print_graph(graph_dict[order[i]], use_interactive,
                                        env, i <= writable)
             after == [graph_dict EXCEPT ![order[i]] = drawn.g]
         IN  IF drawn.raised THEN [graphs |-> after, raised |-> TRUE]
             ELSE DrawFrom(after, order, i + 1, use_interactive, env, writable)

\* debug_print_graph_dict: debug_print_graph on every graph of the dict in
\* turn; order lists the keys of the dict
debug_print_graph_dict(graph_dict, order, use_interactive, env, writable) ==
    DrawFrom(graph_dict, order, 1, use_interactive, env, writable)

\* the keys of inner_cfg in the order of the dict: the programs are entered
\* in the order of cobol_programs
InnerOrder == SelectSeq(DictKeys(cobol_programs), LAMBDA p : p \in DOMAIN inner_cfg)

\* the end of build_graphs: the inner graphs are drawn with
\* debug_print_graph_dict, then outer_cfg and inner_cfg are returned
Finish ==
    /\ pc = "finish"
    /\ \E env \in Environments, writable \in 0..Len(InnerOrder) :
          LET drawn == debug_print_graph_dict(inner_cfg, InnerOrder, TRUE, env, writable)
          IN  /\ inner_cfg' = drawn.graphs
              \* inner is the graph of the last program, the last value of
              \* inner_cfg
              /\ inner' = IF InnerOrder = <<>> THEN inner
                          ELSE drawn.graphs[InnerOrder[Len(InnerOrder)]]
              /\ pc' = IF drawn.raised THEN "raised" ELSE "done"
    /\ UNCHANGED <<cobol_json_list, jcl_json_list, ci, pi, ji, cobol_programs,
                   outer_cfg, dead_nodes, removed_edges>>
    /\ UNCHANGED wfVars

\* visualize_graphs, called on the graphs build_graphs has returned: the
\* caller passes the outer graph or None, the dict of inner graphs or None,
\* and the kind of drawing
VisualizeGraphs ==
    /\ pc = "done"
    /\ \E show_outer, show_inner, interactive, outer_saved \in BOOLEAN,
          env \in Environments, writable \in 0..Len(InnerOrder) :
          LET o == IF show_outer /\ env.dir
                   THEN debug_print_graph(outer_cfg, interactive, env, outer_saved)
                   ELSE [g |-> outer_cfg, raised |-> ~env.dir]
              i == IF show_inner /\ ~o.raised
                   THEN debug_print_graph_dict(inner_cfg, InnerOrder, interactive,
                                               env, writable)
                   ELSE [graphs |-> inner_cfg, raised |-> FALSE]
          IN  /\ outer_cfg' = o.g
              /\ inner_cfg' = i.graphs
              /\ pc' = IF o.raised \/ i.raised THEN "raised" ELSE "done"
    /\ UNCHANGED <<cobol_json_list, jcl_json_list, ci, pi, ji, cobol_programs,
                   inner, dead_nodes, removed_edges>>
    /\ UNCHANGED wfVars

Next ==
    \/ Aggregate
    \/ BuildInnerGraph
    \/ RemoveDeadCode
    \/ RemoveEdgesStep
    \/ AddCallEdges
    \/ ProcessJclJob
    \/ Finish

-----------------------------------------------------------------------------
(* The traversal orders and the two documentation workflows                 *)
(* (documentation_workflow.py, reverse_documentation_workflow.py). They    *)
(* run on the graphs that build_graphs returned. The text of a             *)
(* documentation is not modelled: it is the one value "documentation".     *)

\* node_attributes.get('type') == type
HasType(g, n, type) == "type" \in g.attr[n].keys /\ g.attr[n].type = type

\* the fallback of the order changed to list the program nodes in insertion
\* order
get_reverse_processing_order_unreversed(g) ==
    LET t == topological_sort(g)
        program_ids  == SelectSeq(g.nodes, LAMBDA n : HasType(g, n, "program"))
        jcl_step_ids == SelectSeq(g.nodes, LAMBDA n : HasType(g, n, "jcl_step"))
    IN  IF t.ok THEN Reverse(t.order)
        ELSE program_ids \o Reverse(jcl_step_ids)

\* the order changed to return the topological order as it is
get_reverse_processing_order_forward(g) ==
    LET t == topological_sort(g)
        program_ids  == SelectSeq(g.nodes, LAMBDA n : HasType(g, n, "program"))
        jcl_step_ids == SelectSeq(g.nodes, LAMBDA n : HasType(g, n, "jcl_step"))
    IN  IF t.ok THEN t.order
        ELSE Reverse(program_ids) \o Reverse(jcl_step_ids)

\* get_reverse_processing_order: the topological order reversed; when the
\* sort raises NetworkXUnfeasible, the program nodes reversed, then the step
\* nodes reversed
get_reverse_processing_order(g) ==
    LET t == topological_sort(g)
        program_ids  == SelectSeq(g.nodes, LAMBDA n : HasType(g, n, "program"))
        jcl_step_ids == SelectSeq(g.nodes, LAMBDA n : HasType(g, n, "jcl_step"))
    IN  IF t.ok THEN Reverse(t.order)
        ELSE Reverse(program_ids) \o Reverse(jcl_step_ids)

\* the characters of the ids, in the ascending order of their code points
\* (printable ASCII; the double quote, the backslash and the backquote are
\* left out)
Characters ==
    " !#$%&'()*+,-./0123456789:;<=>?@ABCDEFGHIJKLMNOPQRSTUVWXYZ[]^_abcdefghijklmnopqrstuvwxyz{|}~"

\* the place of a character in the order of the code points
Ord(c) == CHOOSE i \in 1..Len(Characters) : SubSeq(Characters, i, i) = c

RECURSIVE StrLess(_, _)
\* s < t for two strings: the first character that differs decides, and a
\* proper prefix is smaller
StrLess(s, t) ==
    IF t = "" THEN FALSE
    ELSE IF s = "" THEN TRUE
    ELSE IF Head(s) = Head(t) THEN StrLess(Tail(s), Tail(t))
    ELSE Ord(Head(s)) < Ord(Head(t))

RECURSIVE Sorted(_)
\* sorted(list(S)) for a set S of ids
Sorted(S) ==
    IF S = {} THEN <<>>
    ELSE LET least == CHOOSE s \in S : \A t \in S \ {s} : StrLess(s, t)
         IN  <<least>> \o Sorted(S \ {least})

\* ':' in node_id
HasColon(node_id) == \E i \in 1..Len(node_id) : SubSeq(node_id, i, i) = ":"

\* node_id.split(':', 1)[0] for an id that has a colon: the text before the
\* first colon
SplitOwner(node_id) ==
    LET first == CHOOSE i \in 1..Len(node_id) :
                     /\ SubSeq(node_id, i, i) = ":"
                     /\ \A j \in 1..(i - 1) : SubSeq(node_id, j, j) # ":"
    IN  SubSeq(node_id, 1, first - 1)

RECURSIVE NodesForProcessing(_, _, _)
\* the loop of initialize_state over outer_cfg.nodes(): each node id, and
\* after a program that has an inner graph the sorted ids of its paragraphs
NodesForProcessing(g, inner_cfgs, i) ==
    IF i > Len(g.nodes) THEN <<>>
    ELSE LET node_id == g.nodes[i]
             paragraphs ==
                 IF HasType(g, node_id, "program") /\ node_id \in DOMAIN inner_cfgs
                 THEN Sorted(NodeSet(inner_cfgs[node_id]))
                 ELSE <<>>
         IN  <<node_id>> \o paragraphs \o NodesForProcessing(g, inner_cfgs, i + 1)

\* not x, for x a node id or None
Falsy(x) == x = None \/ x = Some("")

\* the steps that a run of a compiled workflow may take: ainvoke is called
\* without a config, so the limit is the default of the runtime
recursion_limit == 25

\* where a workflow may be started: build_graphs has returned, or a
\* workflow run on its graphs has ended
GraphsReturned == pc \in {"done", "end", "reverse_end"}

\* initialize_state: the state of the forward workflow
InitializeState ==
    /\ GraphsReturned
    /\ nodes_to_process' = NodesForProcessing(outer_cfg, inner_cfg, 1)
    /\ documented_nodes' = <<>>
    /\ current_node_id' = None
    /\ outer_nodes_to_process' = <<>>
    /\ current_outer_node_id' = None
    /\ generated_documentation' = <<>>
    /\ supersteps' = 0
    /\ suspended' = None
    /\ pc' = "select_next_node"
    /\ UNCHANGED <<cobol_json_list, jcl_json_list, ci, pi, ji, cobol_programs,
                   outer_cfg, inner, inner_cfg, dead_nodes, removed_edges,
                   reverse_orders>>

\* should_continue changed to look at the list before the selected node
should_continue_list_first(current, nodes) ==
    IF nodes # <<>> THEN "select_next_node"
    ELSE IF current # None THEN "document_node"
    ELSE "END"

\* should_continue, with "END" for END
should_continue(current, nodes) ==
    IF current # None THEN "document_node"
    ELSE IF nodes # <<>> THEN "select_next_node"
    ELSE "END"

\* the conditional edges after select_next_node of the forward workflow: a
\* value that the mapping does not hold is an error
ForwardEdge(route) ==
    IF route = "document_node" THEN "document_node"
    ELSE IF route = "END" THEN "save_documentation"
    ELSE "raised"

\* select_next_node, and the conditional edge that follows it
SelectNextNode ==
    /\ pc = "select_next_node"
    /\ supersteps < recursion_limit
    /\ supersteps' = supersteps + 1
    /\ UNCHANGED suspended
    /\ IF nodes_to_process = <<>>
       THEN /\ current_node_id' = None
            /\ UNCHANGED nodes_to_process
       ELSE /\ current_node_id' = Some(Head(nodes_to_process))
            /\ nodes_to_process' = Tail(nodes_to_process)
    /\ pc' = ForwardEdge(should_continue(current_node_id', nodes_to_process'))
    /\ UNCHANGED <<cobol_json_list, jcl_json_list, ci, pi, ji, cobol_programs,
                   outer_cfg, inner, inner_cfg, dead_nodes, removed_edges,
                   documented_nodes, outer_nodes_to_process, current_outer_node_id,
                   generated_documentation, reverse_orders>>

\* the lookup of document_current_node: an id with a colon is looked up as a
\* paragraph of the program named before the colon, another id in the outer
\* graph
NodeDetailsFound(node_id) ==
    IF HasColon(node_id)
    THEN /\ SplitOwner(node_id) \in DOMAIN inner_cfg
         /\ HasNode(inner_cfg[SplitOwner(node_id)], node_id)
    ELSE HasNode(outer_cfg, node_id)

\* the locals of a node coroutine that waits for the language model: the
\* node id it read from the state before the await, and the awaits it has
\* left
Suspended(node_id, awaits) == Some([node |-> node_id, awaits |-> awaits])

\* document_current_node up to its await: nothing is stored and the node
\* returns when no node is selected or the node is not found; otherwise the
\* coroutine has read current_node_id and waits for the language model
DocumentCurrentNode ==
    /\ pc = "document_node"
    /\ supersteps < recursion_limit
    /\ supersteps' = supersteps + 1
    /\ IF ~Falsy(current_node_id) /\ NodeDetailsFound(current_node_id[1])
       THEN /\ suspended' = Suspended(current_node_id[1], 1)
            /\ pc' = "document_node_await"
       ELSE /\ suspended' = None
            /\ pc' = "select_next_node"
    /\ UNCHANGED <<cobol_json_list, jcl_json_list, ci, pi, ji, cobol_programs,
                   outer_cfg, inner, inner_cfg, dead_nodes, removed_edges>>
    /\ UNCHANGED wfState

\* document_current_node from its await: the documentation (the answer of
\* the language model, or the text of its error) is stored, under the node
\* id read before the await, in a copy of documented_nodes taken after it
DocumentCurrentNodeResumed ==
    /\ pc = "document_node_await"
    /\ suspended # None
    /\ documented_nodes' =
           DictSet(documented_nodes, suspended[1].node, "documentation")
    /\ suspended' = None
    /\ pc' = "select_next_node"
    /\ UNCHANGED <<cobol_json_list, jcl_json_list, ci, pi, ji, cobol_programs,
                   outer_cfg, inner, inner_cfg, dead_nodes, removed_edges,
                   nodes_to_process, current_node_id, outer_nodes_to_process,
                   current_outer_node_id, generated_documentation, reverse_orders,
                   supersteps>>

\* save_documentation: os.makedirs(output_dir) is outside the try and raises
\* when the directory cannot be created (output_dir names a regular file);
\* otherwise the files are written, an error of a write is caught, and the
\* workflow ends
SaveDocumentation ==
    /\ pc = "save_documentation"
    /\ supersteps < recursion_limit
    /\ supersteps' = supersteps + 1
    /\ UNCHANGED suspended
    /\ \E created \in BOOLEAN : pc' = IF created THEN "end" ELSE "raised"
    /\ UNCHANGED <<cobol_json_list, jcl_json_list, ci, pi, ji, cobol_programs,
                   outer_cfg, inner, inner_cfg, dead_nodes, removed_edges>>
    /\ UNCHANGED wfState

\* the number of times the reverse order is requested on the graphs of one
\* build
MaxRequests == 2

\* initialize_reverse_workflow: the state of the reverse workflow, with the
\* list that get_reverse_processing_order returns
InitializeReverseWorkflow ==
    /\ GraphsReturned
    /\ Len(reverse_orders) < MaxRequests
    /\ LET reversed_outer_nodes == get_reverse_processing_order(outer_cfg)
       IN  /\ outer_nodes_to_process' = reversed_outer_nodes
           /\ reverse_orders' = Append(reverse_orders, reversed_outer_nodes)
    /\ current_outer_node_id' = None
    /\ generated_documentation' = <<>>
    /\ nodes_to_process' = <<>>
    /\ current_node_id' = None
    /\ documented_nodes' = <<>>
    /\ supersteps' = 0
    /\ suspended' = None
    /\ pc' = "reverse_select_next_node"
    /\ UNCHANGED <<cobol_json_list, jcl_json_list, ci, pi, ji, cobol_programs,
                   outer_cfg, inner, inner_cfg, dead_nodes, removed_edges>>

\* the conditional edges after select_next_node of the reverse workflow
ReverseEdge(current) ==
    IF ~Falsy(current) THEN "reverse_document_node" ELSE "reverse_save_documentation"

\* the selection changed to take the selected node out of the outer graph
SelectNextOuterNodeRemoving ==
    /\ pc = "reverse_select_next_node"
    /\ supersteps < recursion_limit
    /\ supersteps' = supersteps + 1
    /\ UNCHANGED suspended
    /\ IF outer_nodes_to_process = <<>>
       THEN /\ current_outer_node_id' = None
            /\ UNCHANGED <<outer_nodes_to_process, outer_cfg>>
       ELSE /\ current_outer_node_id' = Some(Head(outer_nodes_to_process))
            /\ outer_nodes_to_process' = Tail(outer_nodes_to_process)
            /\ outer_cfg' = RemoveNode(outer_cfg, Head(outer_nodes_to_process))
    /\ pc' = ReverseEdge(current_outer_node_id')
    /\ UNCHANGED <<cobol_json_list, jcl_json_list, ci, pi, ji, cobol_programs,
                   inner, inner_cfg, dead_nodes, removed_edges,
                   nodes_to_process, current_node_id, documented_nodes,
                   generated_documentation, reverse_orders>>

\* the selection changed to pop the last node of the list
SelectNextOuterNodeLast ==
    /\ pc = "reverse_select_next_node"
    /\ supersteps < recursion_limit
    /\ supersteps' = supersteps + 1
    /\ UNCHANGED suspended
    /\ IF outer_nodes_to_process = <<>>
       THEN /\ current_outer_node_id' = None
            /\ UNCHANGED outer_nodes_to_process
       ELSE /\ current_outer_node_id' =
                   Some(outer_nodes_to_process[Len(outer_nodes_to_process)])
            /\ outer_nodes_to_process' =
                   SubSeq(outer_nodes_to_process, 1, Len(outer_nodes_to_process) - 1)
    /\ pc' = ReverseEdge(current_outer_node_id')
    /\ UNCHANGED <<cobol_json_list, jcl_json_list, ci, pi, ji, cobol_programs,
                   outer_cfg, inner, inner_cfg, dead_nodes, removed_edges,
                   nodes_to_process, current_node_id, documented_nodes,
                   generated_documentation, reverse_orders>>

\* select_next_outer_node, and the conditional edge that follows it
SelectNextOuterNode ==
    /\ pc = "reverse_select_next_node"
    /\ supersteps < recursion_limit
    /\ supersteps' = supersteps + 1
    /\ UNCHANGED suspended
    /\ IF outer_nodes_to_process = <<>>
       THEN /\ current_outer_node_id' = None
            /\ UNCHANGED outer_nodes_to_process
       ELSE /\ current_outer_node_id' = Some(Head(outer_nodes_to_process))
            /\ outer_nodes_to_process' = Tail(outer_nodes_to_process)
    /\ pc' = ReverseEdge(current_outer_node_id')
    /\ UNCHANGED <<cobol_json_list, jcl_json_list, ci, pi, ji, cobol_programs,
                   outer_cfg, inner, inner_cfg, dead_nodes, removed_edges,
                   nodes_to_process, current_node_id, documented_nodes,
                   generated_documentation, reverse_orders>>

\* the ids of the nodes whose documentation generate_documentation_for_outer_node
\* puts in context_from_future_nodes: none when nothing is documented yet;
\* the direct successors that are documented; for a node without successors
\* the last three nodes documented
context_from_future_nodes(node_id, docs) ==
    LET successors == IF HasNode(outer_cfg, node_id) THEN outer_cfg.succ[node_id]
                      ELSE <<>>
        processed  == DictKeys(docs)
    IN  IF docs = <<>> THEN <<>>
        ELSE IF successors # <<>>
        THEN SelectSeq(successors, LAMBDA succ_id : DictHas(docs, succ_id))
        ELSE SubSeq(processed,
                    IF Len(processed) > 3 THEN Len(processed) - 2 ELSE 1,
                    Len(processed))

\* the node is documented by a call of the language model that is not
\* inside a try block: a program without an inner graph, or a step
CallsModelUnguarded(node_id) ==
    /\ HasNode(outer_cfg, node_id)
    /\ \/ HasType(outer_cfg, node_id, "program") /\ node_id \notin DOMAIN inner_cfg
       \/ HasType(outer_cfg, node_id, "jcl_step")

\* node_id.startswith(program_id + ":")
StartsWithOwner(node_id, program_id) ==
    /\ Len(node_id) > Len(program_id)
    /\ SubSeq(node_id, 1, Len(program_id) + 1) = program_id \o ":"

\* the paragraph nodes that document_cobol_program_in_reverse documents, one
\* call of the language model each
ParagraphNodeIds(program_id) ==
    SelectSeq(inner_cfg[program_id].nodes,
              LAMBDA nid : StartsWithOwner(nid, program_id))

\* the number of times generate_documentation_for_outer_node awaits the
\* language model for a node of the outer graph: once per paragraph node
\* of a program that has an inner graph, once for another program and for a
\* step, never for a node of another type
Awaits(node_id) ==
    IF HasType(outer_cfg, node_id, "program")
    THEN IF node_id \in DOMAIN inner_cfg THEN Len(ParagraphNodeIds(node_id)) ELSE 1
    ELSE IF HasType(outer_cfg, node_id, "jcl_step") THEN 1
    ELSE 0

\* generate_documentation_for_outer_node up to its first await: the node
\* returns at once when no node is selected; the lookup of an id that is no
\* node of the outer graph raises KeyError; the documentation of a node
\* that needs no call of the language model is stored at once; otherwise
\* the coroutine has read current_outer_node_id and waits
GenerateDocumentationForOuterNode ==
    /\ pc = "reverse_document_node"
    /\ supersteps < recursion_limit
    /\ supersteps' = supersteps + 1
    /\ IF Falsy(current_outer_node_id)
       THEN /\ pc' = "reverse_select_next_node"
            /\ UNCHANGED <<generated_documentation, suspended>>
       ELSE IF ~HasNode(outer_cfg, current_outer_node_id[1])
       THEN /\ pc' = "raised"
            /\ UNCHANGED <<generated_documentation, suspended>>
       ELSE IF Awaits(current_outer_node_id[1]) = 0
       THEN /\ generated_documentation' =
                   DictSet(generated_documentation, current_outer_node_id[1],
                           "documentation")
            /\ pc' = "reverse_select_next_node"
            /\ UNCHANGED suspended
       ELSE /\ suspended' = Suspended(current_outer_node_id[1],
                                      Awaits(current_outer_node_id[1]))
            /\ pc' = "reverse_document_node_await"
            /\ UNCHANGED generated_documentation
    /\ UNCHANGED <<cobol_json_list, jcl_json_list, ci, pi, ji, cobol_programs,
                   outer_cfg, inner, inner_cfg, dead_nodes, removed_edges,
                   nodes_to_process, current_node_id, documented_nodes,
                   outer_nodes_to_process, current_outer_node_id, reverse_orders>>

\* generate_documentation_for_outer_node from an await: the coroutine goes
\* on to its next await, or, after the last one, stores the documentation,
\* under the node id read before the first await, in a copy of
\* generated_documentation taken after the last; an error of a call that is
\* not inside a try block ends the workflow
GenerateDocumentationForOuterNodeResumed ==
    /\ pc = "reverse_document_node_await"
    /\ suspended # None
    /\ \/ /\ suspended[1].awaits > 1
          /\ suspended' = Suspended(suspended[1].node, suspended[1].awaits - 1)
          /\ UNCHANGED <<pc, generated_documentation>>
       \/ /\ suspended[1].awaits = 1
          /\ generated_documentation' =
                 DictSet(generated_documentation, suspended[1].node, "documentation")
          /\ suspended' = None
          /\ pc' = "reverse_select_next_node"
       \/ /\ CallsModelUnguarded(suspended[1].node)
          /\ pc' = "raised"
          /\ UNCHANGED <<generated_documentation, suspended>>
    /\ UNCHANGED <<cobol_json_list, jcl_json_list, ci, pi, ji, cobol_programs,
                   outer_cfg, inner, inner_cfg, dead_nodes, removed_edges,
                   nodes_to_process, current_node_id, documented_nodes,
                   outer_nodes_to_process, current_outer_node_id, reverse_orders,
                   supersteps>>

\* save_all_documentation: os.makedirs(output_dir) is outside the try and
\* raises when the directory cannot be created; otherwise the files are
\* written, an error of a write is caught, and the workflow ends
SaveAllDocumentation ==
    /\ pc = "reverse_save_documentation"
    /\ supersteps < recursion_limit
    /\ supersteps' = supersteps + 1
    /\ UNCHANGED suspended
    /\ \E created \in BOOLEAN : pc' = IF created THEN "reverse_end" ELSE "raised"
    /\ UNCHANGED <<cobol_json_list, jcl_json_list, ci, pi, ji, cobol_programs,
                   outer_cfg, inner, inner_cfg, dead_nodes, removed_edges>>
    /\ UNCHANGED wfState

\* the positions of a run at which a node of a workflow is due
NodeDue ==
    {"select_next_node", "document_node", "save_documentation",
     "reverse_select_next_node", "reverse_document_node",
     "reverse_save_documentation"}

\* ainvoke when a node is due after recursion_limit steps: the runtime does
\* not run the node and raises GraphRecursionError; the state of the run is
\* lost with it
RecursionLimitReached ==
    /\ pc \in NodeDue
    /\ supersteps >= recursion_limit
    /\ pc' = "raised"
    /\ UNCHANGED <<cobol_json_list, jcl_json_list, ci, pi, ji, cobol_programs,
                   outer_cfg, inner, inner_cfg, dead_nodes, removed_edges>>
    /\ UNCHANGED wfVars

\* build_graphs followed by drawings of its graphs and by runs of the
\* documentation workflows
NextDocumented ==
    \/ Next
    \/ VisualizeGraphs
    \/ InitializeState
    \/ SelectNextNode
    \/ DocumentCurrentNode
    \/ DocumentCurrentNodeResumed
    \/ SaveDocumentation
    \/ InitializeReverseWorkflow
    \/ SelectNextOuterNode
    \/ GenerateDocumentationForOuterNode
    \/ GenerateDocumentationForOuterNodeResumed
    \/ SaveAllDocumentation
    \/ RecursionLimitReached

-----------------------------------------------------------------------------
(* The batches of records the specifications start from                     *)

MaxEdges == 3
MaxCobol == 2
MaxJcl == 2

WholeCobol == {"program_id", "procedure_division", "paragraph_name"}

WholeJcl == {"jobName", "step"}

WholeStep == {"stepName", "programId"}

\* one well-formed step record: step S1 of job J1 runs program A
OneStep == <<JclRecord(WholeJcl, "J1", StepDict(WholeStep, "S1", "A"))>>

\* paragraph names of the inner graph batches
InnerNames == {"ENTRY", "P", "Q"}

\* target names of PERFORM: a paragraph name or the sentinel INLINE
PerformNames == InnerNames \cup {"INLINE"}

\* the pairs (perform_targets, goto_targets) with k targets in all
TargetLists(k) ==
    UNION {{<<pt, gt>> : pt \in [1..j -> PerformNames], gt \in [1..(k - j) -> InnerNames]} :
               j \in 0..k}

RECURSIVE SumSeq(_)
SumSeq(s) == IF s = <<>> THEN 0 ELSE s[1] + SumSeq(Tail(s))

RECURSIVE TargetChoices(_, _)
\* the choices of target lists for paragraphs i.. when paragraph j has ks[j] targets
TargetChoices(ks, i) ==
    IF i > Len(ks) THEN {<<>>}
    ELSE LET rests == TargetChoices(ks, i + 1)
         IN  {<<t>> \o rest : t \in TargetLists(ks[i]), rest \in rests}

\* the paragraph records of program A named order[i], with targets ts[i]
InnerBatch(order, ts) ==
    [i \in 1..Len(order) |->
        CobolRecord(WholeCobol, "A", order[i], Performs(ts[i][1]), ts[i][2], <<>>)]

\* every list of paragraph records of program A with distinct names of
\* InnerNames, in every order, with at most MaxEdges targets in all
InitInner ==
    \E names \in SUBSET InnerNames \ {{}} :
      \E order \in Orderings(names) :
        \E ks \in [1..Len(order) -> 0..MaxEdges] :
          /\ SumSeq(ks) <= MaxEdges
          /\ \E ts \in TargetChoices(ks, 1) :
                InitFrom({InnerBatch(order, ts)}, {OneStep})

SpecInner == InitInner /\ [][Next]_vars

\* remove_edges is sequential code: while it is in its loop it takes the
\* next step of the loop
SpecInnerFair == InitInner /\ [][Next]_vars /\ WF_vars(RemoveEdgesAny)

\* the batch of the scenario: program A with the paragraphs ENTRY, LOOP, END
\* and ORPHAN, ENTRY performs LOOP, LOOP performs LOOP and goes to END
ScenarioRecords ==
    {CobolRecord(WholeCobol, "A", "ENTRY", Performs(<<"LOOP">>), <<>>, <<>>),
     CobolRecord(WholeCobol, "A", "LOOP", Performs(<<"LOOP">>), <<"END">>, <<>>),
     CobolRecord(WholeCobol, "A", "END", <<>>, <<>>, <<>>),
     CobolRecord(WholeCobol, "A", "ORPHAN", <<>>, <<>>, <<>>)}

\* the scenario's records in every order
InitScenario == InitFrom(Orderings(ScenarioRecords), {OneStep})

SpecScenario == InitScenario /\ [][Next]_vars

\* program ids, paragraph names and called_programs lists of the outer
\* graph batches; X is a program that no record defines
CallPrograms == {"A", "B"}

CallNames == {"ENTRY", "P"}

CalleeLists == {<<>>, <<"B">>, <<"X">>, <<"X", "B", "X">>}

\* a record without program_id, and one without paragraph_name
NoProgramId ==
    CobolRecord({"procedure_division", "paragraph_name"}, "", "ENTRY", <<>>, <<>>, <<>>)

NoParagraphName == CobolRecord({"program_id", "procedure_division"}, "A", "", <<>>, <<>>, <<>>)

\* a record of program A that has no procedure_division at all
NoProcedureDivision == CobolRecord({"program_id"}, "A", "", <<>>, <<>>, <<>>)

\* paragraph P of program A with a PERFORM entry that has no target_name,
\* after one that has it
PerformWithoutName ==
    CobolRecord(WholeCobol, "A", "P",
                <<PerformEntry({"target_name"}, "ENTRY"), PerformEntry({}, "")>>,
                <<>>, <<>>)

CallRecords ==
    {CobolRecord(WholeCobol, p, n, <<>>, <<>>, c) :
        p \in CallPrograms, n \in CallNames, c \in CalleeLists}
    \cup {NoProgramId, NoParagraphName, NoProcedureDivision, PerformWithoutName}

\* step S1 of job J1 runs program X
StepRunsX == <<JclRecord(WholeJcl, "J1", StepDict(WholeStep, "S1", "X"))>>

InitCalls == InitFrom(SeqsUpTo(CallRecords, MaxCobol), {OneStep, StepRunsX})

SpecCalls == InitCalls /\ [][Next]_vars

\* job names, step names and target programs of the job step batches; the
\* job name A is also the id of a program
JobNames == {"J1", "A"}

StepNames == {"S1", "S2"}

TargetPrograms == {"A", "X", "J1"}

JobRecords ==
    {JclRecord(WholeJcl, j, StepDict(WholeStep, st, t)) :
        j \in JobNames, st \in StepNames, t \in TargetPrograms}
    \cup {JclRecord({"step"}, "", StepDict(WholeStep, "S1", "A")),
          JclRecord({"jobName"}, "J1", StepDict({}, "", "")),
          JclRecord({}, "", StepDict({}, "", "")),
          JclRecord(WholeJcl, "J1", StepDict({"programId"}, "", "A")),
          JclRecord(WholeJcl, "J1", StepDict({"stepName"}, "S1", ""))}

\* the paragraph batches of the job step specifications
JobCobolLists ==
    {<<>>,
     <<CobolRecord(WholeCobol, "A", "ENTRY", Performs(<<"ENTRY">>), <<>>, <<>>)>>,
     <<CobolRecord(WholeCobol, "B", "ENTRY", <<>>, <<>>, <<"X">>)>>,
     <<CobolRecord(WholeCobol, "B", "ENTRY", <<>>, <<>>, <<"J1">>)>>,
     <<NoProgramId>>,
     <<NoParagraphName>>,
     <<NoProcedureDivision>>,
     <<PerformWithoutName>>}

InitJobs == InitFrom(JobCobolLists, SeqsUpTo(JobRecords, MaxJcl))

SpecJobs == InitJobs /\ [][Next]_vars

\* the batches of the two-program specification: the paragraphs ENTRY and P of
\* the programs A and B, each performing nothing, P or Q and going to
\* nothing or to ENTRY
ProgramRecords ==
    {CobolRecord(WholeCobol, p, n, Performs(pt), gt, <<>>) :
        p \in CallPrograms, n \in CallNames,
        pt \in {<<>>, <<"P">>, <<"Q">>}, gt \in {<<>>, <<"ENTRY">>}}

InitPrograms == InitFrom(SeqsUpTo(ProgramRecords, MaxCobol), {OneStep})

SpecPrograms == InitPrograms /\ [][Next]_vars

\* the batches of the documentation specification: the programs A and B, each
\* with the paragraph ENTRY, calling nothing, A or B
TraversalCallees == {<<>>, <<"A">>, <<"B">>}

TraversalRecords ==
    {CobolRecord(WholeCobol, p, "ENTRY", <<>>, <<>>, c) :
        p \in CallPrograms, c \in TraversalCallees}

\* its job step batches: one step that runs A; two steps that run A and B;
\* two steps that run X, which no record defines, and A
TraversalJobLists ==
    {<<JclRecord(WholeJcl, "J1", StepDict(WholeStep, "S1", "A"))>>,
     <<JclRecord(WholeJcl, "J1", StepDict(WholeStep, "S1", "A")),
       JclRecord(WholeJcl, "J1", StepDict(WholeStep, "S2", "B"))>>,
     <<JclRecord(WholeJcl, "J1", StepDict(WholeStep, "S1", "X")),
       JclRecord(WholeJcl, "J1", StepDict(WholeStep, "S2", "A"))>>}

\* the steps of a long job
LongStepNames == <<"S1", "S2", "S3", "S4", "S5", "S6", "S7", "S8", "S9", "S10">>

\* a long job: the first k steps of job J1, each running program A
LongJob(k) ==
    [i \in 1..k |-> JclRecord(WholeJcl, "J1", StepDict(WholeStep, LongStepNames[i], "A"))]

\* the long batches: program A with the paragraph ENTRY and a job of 8, 9 or
\* 10 steps, which give 11, 12 and 13 ids to the forward workflow and 10, 11
\* and 12 outer nodes to the reverse workflow
LongCobolLists == {<<CobolRecord(WholeCobol, "A", "ENTRY", <<>>, <<>>, <<>>)>>}

LongJobLists == {LongJob(k) : k \in 8..Len(LongStepNames)}

\* the batches of a program of several paragraphs: program A with the
\* paragraphs P and Q, or P, Q and R, in this order, and one step that runs A
ParagraphCobolLists ==
    {<<CobolRecord(WholeCobol, "A", "P", <<>>, <<>>, <<>>),
       CobolRecord(WholeCobol, "A", "Q", <<>>, <<>>, <<>>)>>,
     <<CobolRecord(WholeCobol, "A", "P", <<>>, <<>>, <<>>),
       CobolRecord(WholeCobol, "A", "Q", <<>>, <<>>, <<>>),
       CobolRecord(WholeCobol, "A", "R", <<>>, <<>>, <<>>)>>}

ParagraphJobLists ==
    {<<JclRecord(WholeJcl, "J1", StepDict(WholeStep, "S1", "A"))>>}

InitDocumented ==
    \/ InitFrom(SeqsUpTo(TraversalRecords, MaxCobol), TraversalJobLists)
    \/ InitFrom(LongCobolLists, LongJobLists)
    \/ InitFrom(ParagraphCobolLists, ParagraphJobLists)

SpecDocumented == InitDocumented /\ [][NextDocumented]_vars

\* the batches of the elimination specification: paragraphs of program A with
\* distinct names of InnerNames, at most MaxCobol of them, in every order;
\* each performs nothing or P, goes to nothing or to ENTRY, and calls nothing,
\* A or X
EliminationChoices ==
    {<<pt, gt, c>> : pt \in {<<>>, <<"P">>}, gt \in {<<>>, <<"ENTRY">>},
                     c \in {<<>>, <<"A">>, <<"X">>}}

EliminationBatch(order, ch) ==
    [i \in 1..Len(order) |->
        CobolRecord(WholeCobol, "A", order[i], Performs(ch[i][1]), ch[i][2], ch[i][3])]

InitElimination ==
    \E names \in SUBSET InnerNames \ {{}} :
      /\ Cardinality(names) <= MaxCobol
      /\ \E order \in Orderings(names) :
            \E ch \in [1..Len(order) -> EliminationChoices] :
                InitFrom({EliminationBatch(order, ch)}, {OneStep, StepRunsX})

SpecElimination == InitElimination /\ [][Next]_vars

-----------------------------------------------------------------------------
(* Definitions the properties are stated with                              *)

\* the nodes that the nodes of S have an edge to
Successors(g, S) == {e[2] : e \in {f \in EdgeSet(g) : f[1] \in S}}

RECURSIVE ReachableFrom(_, _)
\* the nodes of S and the nodes reachable from them
ReachableFrom(g, S) ==
    LET T == S \cup Successors(g, S)
    IN  IF T = S THEN S ELSE ReachableFrom(g, T)

\* some node reaches itself along one edge or more
HasCycle(g) == \E n \in NodeSet(g) : n \in ReachableFrom(g, Successors(g, {n}))

IndexOf(s, x) == CHOOSE i \in 1..Len(s) : s[i] = x

\* the ids of the paragraphs aggregated for program prog_id
BlockIds(prog_id) ==
    IF DictHas(cobol_programs, prog_id)
    THEN {NodeId(prog_id, name) : name \in Range(DictKeys(DictGet(cobol_programs, prog_id)))}
    ELSE {}

\* the dead code pass of the current program has just finished
AfterDeadPass == pc = "break_cycles" /\ removed_edges = <<>>

\* the inner graph of the current program as it was before the dead code pass
BeforeDeadPass == BuildInner(cobol_programs[pi].k, cobol_programs[pi].v).g

\* the program ids aggregated from the paragraph records
Aggregated == Range(DictKeys(cobol_programs))

\* the records of cobol_json_list that are the blocks of program prog_id: for
\* each paragraph name the last record of that name
BlockRecords(prog_id) ==
    {cobol_json_list[i] : i \in
        {i \in 1..Len(cobol_json_list) :
            /\ cobol_json_list[i].program_id = prog_id
            /\ \A j \in (i + 1)..Len(cobol_json_list) :
                  ~ /\ cobol_json_list[j].program_id = prog_id
                    /\ cobol_json_list[j].paragraph_name =
                           cobol_json_list[i].paragraph_name}}

\* the targets of the edges of a type that leave node n in the outer graph
OuterTargets(n, type) ==
    {e[2] : e \in {f \in EdgeSet(outer_cfg) : f[1] = n /\ outer_cfg.etype[f] = type}}

\* node n of the outer graph is a program node marked as a placeholder
IsPlaceholder(n) ==
    /\ HasNode(outer_cfg, n)
    /\ outer_cfg.attr[n].type = "program"
    /\ "isPlaceholder" \in outer_cfg.attr[n].keys
    /\ outer_cfg.attr[n].isPlaceholder

\* a job step record with jobName, step, stepName and programId
CompleteJob(job) == WholeJcl \subseteq job.keys /\ WholeStep \subseteq job.step.keys

\* every name that a paragraph record of the batch calls
CalledInBatch ==
    UNION {Range(cobol_json_list[i].called_programs) : i \in 1..Len(cobol_json_list)}

\* every job name of the batch
JobNamesInBatch ==
    {jcl_json_list[i].jobName :
        i \in {k \in 1..Len(jcl_json_list) : "jobName" \in jcl_json_list[k].keys}}

-----------------------------------------------------------------------------
(* Properties                                                              *)

\* C1: every inner graph that build_graphs stores in inner_cfg has no
\* directed cycle, self-loops included, and its topological sort succeeds.
C1_InnerAcyclic ==
    \A p \in DOMAIN inner_cfg :
        /\ ~HasCycle(inner_cfg[p])
        /\ topological_sort(inner_cfg[p]).ok
        /\ Len(topological_sort(inner_cfg[p]).order) = NumberOfNodes(inner_cfg[p])

\* C1 witness: a build has returned an inner graph from which two cycle
\* closing edges, one of them a self-loop, had to be removed.
C1_Witness ==
    /\ pc = "done"
    /\ "A" \in DOMAIN inner_cfg
    /\ Len(removed_edges) >= 2
    /\ \E i \in 1..Len(removed_edges) : removed_edges[i][1] = removed_edges[i][2]
    /\ \E i \in 1..Len(removed_edges) : removed_edges[i][1] # removed_edges[i][2]

\* C2 as stated: when the dead code pass has finished on a graph that has
\* the node P:ENTRY, every other remaining node has in-degree >= 1.
C2_Original ==
    (AfterDeadPass /\ HasNode(inner, NodeId(cobol_programs[pi].k, "ENTRY")))
        => \A n \in NodeSet(inner) \ {NodeId(cobol_programs[pi].k, "ENTRY")} :
               InDegree(inner, n) >= 1

\* C2 amended: when the dead code pass has finished on a graph that has the
\* node P:ENTRY, every other remaining node has in-degree >= 1, or had an
\* edge from a node that was inserted after it and that the pass removed.
C2_InDegreeWhenVisited ==
    (AfterDeadPass /\ HasNode(inner, NodeId(cobol_programs[pi].k, "ENTRY")))
        => \A n \in NodeSet(inner) \ {NodeId(cobol_programs[pi].k, "ENTRY")} :
               \/ InDegree(inner, n) >= 1
               \/ \E m \in Range(dead_nodes) :
                      /\ HasEdge(BeforeDeadPass, m, n)
                      /\ IndexOf(BeforeDeadPass.nodes, m) > IndexOf(BeforeDeadPass.nodes, n)

\* C2 witness: the pass has removed a node and left a node other than ENTRY
\* whose in-degree is 0.
C2_Witness ==
    /\ AfterDeadPass
    /\ HasNode(inner, NodeId(cobol_programs[pi].k, "ENTRY"))
    /\ dead_nodes # <<>>
    /\ \E n \in NodeSet(inner) \ {NodeId(cobol_programs[pi].k, "ENTRY")} :
          InDegree(inner, n) = 0

\* C3: a target that names no paragraph of the program adds no node and no
\* edge: the nodes of the inner graph under construction and of every inner
\* graph returned are paragraphs of the program, and so are the endpoints of
\* every edge.
C3_OnlyBlockNodes ==
    /\ pc \in {"dead_code", "break_cycles"}
          => /\ NodeSet(inner) \subseteq BlockIds(cobol_programs[pi].k)
             /\ \A e \in EdgeSet(inner) : {e[1], e[2]} \subseteq BlockIds(cobol_programs[pi].k)
    /\ \A p \in DOMAIN inner_cfg :
          /\ NodeSet(inner_cfg[p]) \subseteq BlockIds(p)
          /\ \A e \in EdgeSet(inner_cfg[p]) : {e[1], e[2]} \subseteq BlockIds(p)

\* C4: for the scenario's batch, whatever the order of its records, the dead
\* code pass removes ORPHAN alone, cycle elimination removes LOOP -> LOOP
\* alone, and the inner graph returned has the nodes ENTRY, LOOP, END, the
\* edges ENTRY -> LOOP and LOOP -> END, and the topological order
\* ENTRY, LOOP, END.
C4_Scenario ==
    /\ (pc \in {"break_cycles", "call_edges"}) => dead_nodes = <<"A:ORPHAN">>
    /\ (pc = "call_edges") => removed_edges = << <<"A:LOOP", "A:LOOP">> >>
    /\ "A" \in DOMAIN inner_cfg =>
          /\ NodeSet(inner_cfg["A"]) = {"A:ENTRY", "A:LOOP", "A:END"}
          /\ NumberOfNodes(inner_cfg["A"]) = Cardinality(NodeSet(inner_cfg["A"]))
          /\ EdgeSet(inner_cfg["A"]) = {<<"A:ENTRY", "A:LOOP">>, <<"A:LOOP", "A:END">>}
          /\ topological_sort(inner_cfg["A"]).ok
          /\ topological_sort(inner_cfg["A"]).order = <<"A:ENTRY", "A:LOOP", "A:END">>
    /\ pc = "done" => "A" \in DOMAIN inner_cfg

\* C4 witness: the build of the scenario has returned, with ORPHAN listed
\* first in the batch.
C4_Witness ==
    /\ pc = "done"
    /\ cobol_json_list[1].paragraph_name = "ORPHAN"
    /\ "A" \in DOMAIN inner_cfg
    /\ dead_nodes = <<"A:ORPHAN">>

\* C5: once the programs are processed, the targets of the CALL edges that
\* leave an aggregated program are exactly the names in the called_programs
\* lists of its blocks, each joined by one edge.
C5_CallEdgesAreUnion ==
    pc \in {"jcl", "finish", "done"} =>
        \A p \in Aggregated :
            /\ OuterTargets(p, "CALL") =
                   UNION {Range(r.called_programs) : r \in BlockRecords(p)}
            /\ Len(outer_cfg.succ[p]) = Cardinality(Range(outer_cfg.succ[p]))

\* C5 witness: the build has returned for a program of two blocks whose
\* lists name two callees between them, one of them twice.
C5_Witness ==
    /\ pc = "done"
    /\ \E p \in Aggregated :
          /\ Cardinality(BlockRecords(p)) = 2
          /\ \A r \in BlockRecords(p) : r.called_programs # <<>>
          /\ \E r \in BlockRecords(p) : Len(r.called_programs) = 3
          /\ Cardinality(OuterTargets(p, "CALL")) = 2

\* C6: when the build has returned, every complete step record J, S whose
\* target program X is no aggregated program, no called program and no job
\* name has a placeholder program node X and an EXECUTES edge J:S -> X.
C6_StepTargetPlaceholder ==
    pc = "done" =>
        \A i \in 1..Len(jcl_json_list) :
            LET job == jcl_json_list[i]
                X == job.step.programId
            IN  (/\ CompleteJob(job)
                 /\ X \notin Aggregated
                 /\ X \notin CalledInBatch
                 /\ X \notin JobNamesInBatch)
                    => /\ IsPlaceholder(X)
                       /\ X \in OuterTargets(NodeId(job.jobName, job.step.stepName),
                                             "EXECUTES")

\* C6 witness: the build has returned for a batch with such a step record.
C6_Witness ==
    /\ pc = "done"
    /\ \E i \in 1..Len(jcl_json_list) :
          /\ CompleteJob(jcl_json_list[i])
          /\ jcl_json_list[i].step.programId \notin
                 Aggregated \cup CalledInBatch \cup JobNamesInBatch
          /\ IsPlaceholder(jcl_json_list[i].step.programId)
          /\ HasEdge(outer_cfg,
                     NodeId(jcl_json_list[i].jobName, jcl_json_list[i].step.stepName),
                     jcl_json_list[i].step.programId)

\* C7: when the build has returned, every target of a CALL edge that is no
\* aggregated program is a placeholder program node, and no aggregated
\* program is marked as a placeholder.
C7_CalleePlaceholder ==
    pc = "done" =>
        /\ \A p \in Aggregated :
              \A callee \in OuterTargets(p, "CALL") \ Aggregated : IsPlaceholder(callee)
        /\ \A p \in Aggregated : ~IsPlaceholder(p)

\* C8: when the build has returned for a batch of one or more step records
\* that all have jobName and step and share one job name, the outer graph
\* has exactly one node of type jcl_job with that name.
C8_OneJobNode ==
    (/\ pc = "done"
     /\ jcl_json_list # <<>>
     /\ \A i \in 1..Len(jcl_json_list) :
           /\ WholeJcl \subseteq jcl_json_list[i].keys
           /\ jcl_json_list[i].jobName = jcl_json_list[1].jobName)
        => Cardinality({k \in 1..Len(outer_cfg.nodes) :
                           /\ outer_cfg.nodes[k] = jcl_json_list[1].jobName
                           /\ outer_cfg.attr[outer_cfg.nodes[k]].type = "jcl_job"}) = 1

\* C9: build_graphs never raises.
C9_NoFatalError == pc # "raised"

\* C10: a step record without jobName or step leaves the outer graph as it
\* is and the loop goes on to the next record; and when the build has
\* returned every complete record of the batch has its step node and its
\* EXECUTES edge.
C10_SkipAndContinue ==
    /\ [][(/\ pc = "jcl"
           /\ ~(WholeJcl \subseteq jcl_json_list[ji].keys))
              => /\ outer_cfg' = outer_cfg
                 /\ ji' = ji + 1
                 /\ pc' = IF ji' <= Len(jcl_json_list) THEN "jcl" ELSE "finish"]_vars
    /\ [](pc = "done" =>
            \A i \in 1..Len(jcl_json_list) :
                CompleteJob(jcl_json_list[i]) =>
                    LET step_id == NodeId(jcl_json_list[i].jobName,
                                          jcl_json_list[i].step.stepName)
                    IN  /\ HasNode(outer_cfg, step_id)
                        /\ outer_cfg.attr[step_id].type = "jcl_step"
                        /\ jcl_json_list[i].step.programId
                               \in OuterTargets(step_id, "EXECUTES"))

\* C10 witness: the build has returned for a batch whose first record has
\* no step and whose second record is complete, with the outer graph holding
\* the second record's step and nothing of the first.
C10_Witness ==
    /\ pc = "done"
    /\ Len(jcl_json_list) = 2
    /\ jcl_json_list[1].keys = {"jobName"}
    /\ CompleteJob(jcl_json_list[2])
    /\ jcl_json_list[2].jobName = "A"
    /\ HasNode(outer_cfg, NodeId("A", jcl_json_list[2].step.stepName))
    /\ ~HasNode(outer_cfg, "J1")

-----------------------------------------------------------------------------
(* Properties of the traversal orders                                      *)

\* the nodes of a type in graph g
NodesOfType(g, type) == {n \in NodeSet(g) : HasType(g, n, type)}

\* the sequence o lists every element of S once and nothing else
ListsOnce(o, S) ==
    /\ Range(o) = S
    /\ \A i, j \in 1..Len(o) : o[i] = o[j] => i = j

\* initialize_state has just built the state of the forward workflow
ForwardInitialized ==
    pc = "select_next_node" /\ current_node_id = None /\ documented_nodes = <<>>

\* C11: when the outer graph has a cycle, every list that
\* get_reverse_processing_order returns holds the program nodes and the step
\* nodes once each and no job node, every program node before every step
\* node, and two nodes of the same kind in the reverse of their insertion
\* order.
C11_FallbackOrder ==
    \A k \in 1..Len(reverse_orders) :
        LET o == reverse_orders[k]
        IN  HasCycle(outer_cfg) =>
              /\ ListsOnce(o, NodesOfType(outer_cfg, "program")
                                \cup NodesOfType(outer_cfg, "jcl_step"))
              /\ \A i \in 1..Len(o) : ~HasType(outer_cfg, o[i], "jcl_job")
              /\ \A i, j \in 1..Len(o) :
                    i < j =>
                      \/ /\ HasType(outer_cfg, o[i], "program")
                         /\ HasType(outer_cfg, o[j], "jcl_step")
                      \/ /\ outer_cfg.attr[o[i]].type = outer_cfg.attr[o[j]].type
                         /\ IndexOf(outer_cfg.nodes, o[i]) > IndexOf(outer_cfg.nodes, o[j])

\* A calls B and B calls A, two steps and their job are in the outer graph,
\* and the order has been returned
C11_Witness ==
    /\ reverse_orders # <<>>
    /\ HasEdge(outer_cfg, "A", "B")
    /\ HasEdge(outer_cfg, "B", "A")
    /\ Cardinality(NodesOfType(outer_cfg, "jcl_step")) = 2
    /\ NodesOfType(outer_cfg, "jcl_job") # {}
    /\ Len(reverse_orders[1]) = 4

\* C12: when the outer graph has no cycle, every list that
\* get_reverse_processing_order returns holds every node of the outer graph
\* once, and for every edge u -> v it holds v before u.
C12_ReverseTopological ==
    \A k \in 1..Len(reverse_orders) :
        LET o == reverse_orders[k]
        IN  ~HasCycle(outer_cfg) =>
              /\ ListsOnce(o, NodeSet(outer_cfg))
              /\ \A e \in EdgeSet(outer_cfg) : IndexOf(o, e[2]) < IndexOf(o, e[1])

\* the order has been returned for an outer graph without a cycle that has
\* a CALL edge, an EXECUTES edge and a job node
C12_Witness ==
    /\ reverse_orders # <<>>
    /\ ~HasCycle(outer_cfg)
    /\ \E e \in EdgeSet(outer_cfg) : outer_cfg.etype[e] = "CALL"
    /\ \E e \in EdgeSet(outer_cfg) : outer_cfg.etype[e] = "EXECUTES"
    /\ NodesOfType(outer_cfg, "jcl_job") # {}

\* C13: when the outer graph has no cycle, the list of nodes that
\* initialize_state builds for the forward workflow holds u before v for
\* every edge u -> v of the outer graph.
C13_ForwardTopological ==
    (ForwardInitialized /\ ~HasCycle(outer_cfg)) =>
        \A e \in EdgeSet(outer_cfg) :
            IndexOf(nodes_to_process, e[1]) < IndexOf(nodes_to_process, e[2])

-----------------------------------------------------------------------------
(* Properties of cycle elimination and of the graph operations             *)

\* the inner graph of the current program as remove_edges receives it
AfterDeadCode == RemoveDead(BeforeDeadPass, cobol_programs[pi].k).g

\* one iteration of the loop of remove_edges removes one edge, which the
\* graph had, and nothing else, and appends it to removed_edges
C14_RemovesOneEdge ==
    (pc = "break_cycles" /\ pc' = "break_cycles") =>
        \E e \in EdgeSet(inner) :
            /\ EdgeSet(inner') = EdgeSet(inner) \ {e}
            /\ NumberOfEdges(inner') = NumberOfEdges(inner) - 1
            /\ Len(Edges(inner')) = Len(Edges(inner)) - 1
            /\ inner'.nodes = inner.nodes
            /\ removed_edges' = Append(removed_edges, e)

\* remove_edges returns when, and only when, the graph has no cycle
C14_StopsWhenAcyclic ==
    pc = "break_cycles" => ((pc' = "call_edges") <=> ~HasCycle(inner))

\* C14: remove_edges terminates: each iteration of its loop removes exactly
\* one edge that the graph had, the number of iterations is at most the
\* number of edges the graph had when remove_edges was called, the loop is
\* left exactly when the graph has no cycle, and it is always left.
C14_CycleEliminationTerminates ==
    /\ [][C14_RemovesOneEdge /\ C14_StopsWhenAcyclic]_vars
    /\ [](pc \in {"break_cycles", "call_edges"} =>
             Len(removed_edges) + NumberOfEdges(inner) = NumberOfEdges(AfterDeadCode))
    /\ [](pc = "break_cycles" => <>(pc = "call_edges"))

\* remove_edges has returned after two iterations of its loop
C14_Witness ==
    /\ pc = "call_edges"
    /\ Len(removed_edges) = 2
    /\ NumberOfEdges(AfterDeadCode) = 3

\* C15: adding an edge of a graph again, with the type it has, yields the
\* same graph: the number of edges is the same and the list of edges holds
\* the edge once. Stated of the inner graph under construction and of the
\* outer graph, in every state.
C15_AddEdgeTwice ==
    \A g \in {inner, outer_cfg} :
        \A e \in EdgeSet(g) :
            LET again == AddEdge(g, e[1], e[2], g.etype[e])
            IN  /\ again = g
                /\ NumberOfEdges(again) = NumberOfEdges(g)
                /\ Len(Edges(again)) = Len(Edges(g))
                /\ Cardinality({i \in 1..Len(Edges(again)) : Edges(again)[i] = e}) = 1

\* the inner graph has just been built from a batch in which ENTRY performs
\* P twice, and it has the edge
C15_Witness ==
    /\ pc = "dead_code"
    /\ \E i \in 1..Len(cobol_json_list) :
          /\ cobol_json_list[i].paragraph_name = "ENTRY"
          /\ TargetNames(cobol_json_list[i].perform_targets) = <<"P", "P">>
    /\ HasEdge(inner, "A:ENTRY", "A:P")
    /\ inner.etype[<<"A:ENTRY", "A:P">>] = "PERFORM"

\* the paragraph names and target names of the batch
BlockNamesInBatch ==
    UNION {{cobol_json_list[i].paragraph_name}
           \cup Range(TargetNames(cobol_json_list[i].perform_targets))
           \cup Range(cobol_json_list[i].goto_targets) : i \in 1..Len(cobol_json_list)}

\* id n has the form prog_id:<blockName>
BlockOf(n, prog_id) == \E b \in BlockNamesInBatch : n = NodeId(prog_id, b)

\* the nodes of graph g and the endpoints of its edges
NodesAndEndpoints(g) == NodeSet(g) \cup UNION {{e[1], e[2]} : e \in EdgeSet(g)}

\* C16: in every inner graph that build_graphs stores for a program P, every
\* node id and every endpoint of an edge has the form P:<blockName>, and
\* none has the form Q:<blockName> for another program Q of the batch.
C16_InnerGraphOwnIds ==
    \A p \in DOMAIN inner_cfg :
        \A n \in NodesAndEndpoints(inner_cfg[p]) :
            /\ BlockOf(n, p)
            /\ \A q \in Aggregated \ {p} : ~BlockOf(n, q)

\* build_graphs has returned the inner graphs of two programs, each with an
\* edge
C16_Witness ==
    /\ pc = "done"
    /\ DOMAIN inner_cfg = {"A", "B"}
    /\ \A p \in DOMAIN inner_cfg : EdgeSet(inner_cfg[p]) # {}

\* the attribute keys that hold the structural attributes of a program
StructuralKeys == {"identification_division", "environment_division", "data_division"}

\* C17: when build_graphs has returned, the node of every aggregated program
\* has the keys identification_division, environment_division and
\* data_division, and its has_inner_cfg tells whether the program has a
\* paragraph.
C17_ProgramNodeAttributes ==
    pc = "done" =>
        \A p \in Aggregated :
            /\ HasNode(outer_cfg, p)
            /\ StructuralKeys \subseteq outer_cfg.attr[p].keys
            /\ "has_inner_cfg" \in outer_cfg.attr[p].keys
            /\ outer_cfg.attr[p].has_inner_cfg = (Len(DictGet(cobol_programs, p)) > 0)

\* the positions of the processes at which the graphs have been returned and
\* a documentation workflow may be running
WorkflowPcs ==
    {"done", "select_next_node", "document_node", "document_node_await",
     "save_documentation", "end",
     "reverse_select_next_node", "reverse_document_node",
     "reverse_document_node_await",
     "reverse_save_documentation", "reverse_end"}

\* a step leaves the nodes and the edges of the outer graph and of every
\* inner graph as they are
GraphsKept ==
    /\ NodeSet(outer_cfg') = NodeSet(outer_cfg)
    /\ EdgeSet(outer_cfg') = EdgeSet(outer_cfg)
    /\ DOMAIN inner_cfg' = DOMAIN inner_cfg
    /\ \A p \in DOMAIN inner_cfg :
          /\ NodeSet(inner_cfg'[p]) = NodeSet(inner_cfg[p])
          /\ EdgeSet(inner_cfg'[p]) = EdgeSet(inner_cfg[p])

\* C18: the lists that get_reverse_processing_order returns for the graphs
\* of one build are all the same list, and no step taken after build_graphs
\* has returned (computing an order, selecting a node by pop(0), documenting
\* it, saving) changes the nodes or the edges of the outer graph or of an
\* inner graph.
C18_Restartable ==
    /\ [](\A i, j \in 1..Len(reverse_orders) : reverse_orders[i] = reverse_orders[j])
    /\ [][(pc \in WorkflowPcs) => GraphsKept]_vars

\* the order has been returned twice, the second time after every node of
\* the first list had been selected, and the second list has been consumed
\* as well
C18_Witness ==
    /\ Len(reverse_orders) = 2
    /\ Len(reverse_orders[1]) >= 3
    /\ pc = "reverse_end"
    /\ outer_nodes_to_process = <<>>
    /\ Len(generated_documentation) = Len(reverse_orders[2])

\* C19: when build_graphs has returned, every EXECUTES edge of the outer
\* graph goes from a step node to a program node, every CALL edge from a
\* program node to a program node, and no edge has a job node at either end.
C19_EdgeEndpoints ==
    pc = "done" =>
        \A e \in EdgeSet(outer_cfg) :
            /\ outer_cfg.etype[e] = "EXECUTES" =>
                  /\ HasType(outer_cfg, e[1], "jcl_step")
                  /\ HasType(outer_cfg, e[2], "program")
            /\ outer_cfg.etype[e] = "CALL" =>
                  /\ HasType(outer_cfg, e[1], "program")
                  /\ HasType(outer_cfg, e[2], "program")
            /\ ~HasType(outer_cfg, e[1], "jcl_job")
            /\ ~HasType(outer_cfg, e[2], "jcl_job")

\* graph g with its nodes visited in ascending order of their ids; the
\* out-edges of each node keep their insertion order
InAscendingOrder(g) == [g EXCEPT !.nodes = Sorted(NodeSet(g))]

\* C20: every iteration of the loop of remove_edges removes the closing edge
\* of the cycle that a depth-first search finds when it tries the start
\* nodes in ascending order of their ids and follows the out-edges in
\* insertion order (so that the order in which the batch lists the
\* paragraphs does not matter).
C20_ClosingEdgeAscending ==
    [][(pc = "break_cycles" /\ pc' = "break_cycles") =>
          /\ find_cycle(InAscendingOrder(inner)).found
          /\ removed_edges' =
                 Append(removed_edges, find_cycle(InAscendingOrder(inner)).edge)]_vars

\* the id of the ENTRY node of the current program
EntryId == NodeId(cobol_programs[pi].k, "ENTRY")

\* C21: when the inner graph of a program has no node P:ENTRY, the dead code
\* pass removes nothing: the graph after the pass, its nodes and edges with
\* their attributes and order, is the graph before it, and no node is listed
\* as dead, even when some nodes have in-degree 0.
C21_NoEntryNoRemoval ==
    (AfterDeadPass /\ ~HasNode(BeforeDeadPass, EntryId))
        => /\ inner = BeforeDeadPass
           /\ NodeSet(inner) = NodeSet(BeforeDeadPass)
           /\ EdgeSet(inner) = EdgeSet(BeforeDeadPass)
           /\ dead_nodes = <<>>

\* C21 witness: the pass has finished on a graph without P:ENTRY that has an
\* edge and a node of in-degree 0.
C21_Witness ==
    /\ AfterDeadPass
    /\ ~HasNode(BeforeDeadPass, EntryId)
    /\ EdgeSet(inner) # {}
    /\ \E n \in NodeSet(inner) : InDegree(inner, n) = 0

\* C22: when P:ENTRY exists, the dead code pass removes every other node
\* whose in-degree was 0 when the pass started, and with it every edge that
\* left it, and P:ENTRY is never removed.
C22_DeadBlocksRemoved ==
    (AfterDeadPass /\ HasNode(BeforeDeadPass, EntryId))
        => /\ \A n \in NodeSet(BeforeDeadPass) \ {EntryId} :
                  InDegree(BeforeDeadPass, n) = 0
                      => /\ ~HasNode(inner, n)
                         /\ Contains(dead_nodes, n)
                         /\ \A e \in EdgeSet(inner) : e[1] # n
           /\ HasNode(inner, EntryId)
           /\ ~Contains(dead_nodes, EntryId)

\* C22 witness: the pass has finished on a graph where P:ENTRY had in-degree
\* 0 and has removed a node that had an outgoing edge.
C22_Witness ==
    /\ AfterDeadPass
    /\ HasNode(BeforeDeadPass, EntryId)
    /\ InDegree(BeforeDeadPass, EntryId) = 0
    /\ \E n \in Range(dead_nodes) :
          /\ InDegree(BeforeDeadPass, n) = 0
          /\ \E e \in EdgeSet(BeforeDeadPass) : e[1] = n /\ e[2] # n

\* the aggregated programs with the PERFORM and GOTO targets of every
\* paragraph taken away
WithoutTargets(programs) ==
    [i \in 1..Len(programs) |->
        [k |-> programs[i].k,
         v |-> [j \in 1..Len(programs[i].v) |->
                   [k |-> programs[i].v[j].k,
                    v |-> [programs[i].v[j].v EXCEPT !.perform_targets = <<>>,
                                                     !.goto_targets = <<>>]]]]]

RECURSIVE OuterOfPrograms(_, _, _)
\* what the loop over the programs can do to the outer graph: the program
\* node and the CALL edges of each program in turn.  The callees of a program
\* are listed from a set, in an order that is not fixed, so the result is the
\* set of the graphs that the orders give
OuterOfPrograms(g, programs, i) ==
    IF i > Len(programs) THEN {g}
    ELSE LET prog_id == programs[i].k
             paragraphs == programs[i].v
             node == AddNode(g, prog_id,
                             [NoAttr EXCEPT !.keys = {"type", "has_inner_cfg"},
                                            !.type = "program",
                                            !.has_inner_cfg = (paragraphs # <<>>)])
         IN  UNION {OuterOfPrograms(AddCalls(node, prog_id, called_programs_list, 1),
                                    programs, i + 1) :
                       called_programs_list \in Orderings(AllCalledPrograms(paragraphs))}

RECURSIVE OuterOfJobs(_, _, _)
\* what the loop over the job step records does to the outer graph when no
\* record makes it raise
OuterOfJobs(g, jobs, i) ==
    IF i > Len(jobs) THEN g
    ELSE LET job == jobs[i]
             step_id == NodeId(job.jobName, job.step.stepName)
         IN  OuterOfJobs(
                 IF SkipsJob(job) THEN g
                 ELSE LinkStepToProgram(
                          AddStepNode(AddJobNode(g, job.jobName), step_id,
                                      job.jobName, job.step),
                          step_id, job.step.programId),
                 jobs, i + 1)

\* the outer graphs that a batch can give when no record makes the build
\* raise
OuterGraphs(programs, jobs) ==
    {OuterOfJobs(g, jobs, 1) : g \in OuterOfPrograms(EmptyGraph, programs, 1)}

\* the block of program p that record r describes is no node of the inner
\* graph returned for p
BlockEliminated(p, r) ==
    /\ p \in DOMAIN inner_cfg
    /\ ~HasNode(inner_cfg[p], NodeId(p, r.paragraph_name))

\* C23: the outer graph does not depend on the elimination in the inner
\* graphs. The dead code pass and the cycle loop leave the outer graph as it
\* is; the outer graph returned is, nodes and successors in their order, one
\* of those that the same batch without any PERFORM or GOTO target gives, so
\* that batches that differ in these targets only have the same outer graphs;
\* and every callee of a block that was removed as dead has its CALL edge.
C23_OuterIgnoresElimination ==
    /\ [][(pc \in {"dead_code", "break_cycles"}) => outer_cfg' = outer_cfg]_vars
    /\ [](pc = "done" =>
            /\ outer_cfg \in OuterGraphs(WithoutTargets(cobol_programs), jcl_json_list)
            /\ \A p \in Aggregated : \A r \in BlockRecords(p) :
                  BlockEliminated(p, r) =>
                      \A c \in Range(r.called_programs) :
                          /\ HasEdge(outer_cfg, p, c)
                          /\ outer_cfg.etype[<<p, c>>] = "CALL")

\* C23 witness: the build has returned after a block was removed as dead and
\* an edge was cut, and the dead block is the only one that calls X.
C23_Witness ==
    /\ pc = "done"
    /\ removed_edges # <<>>
    /\ \E r \in BlockRecords("A") :
          /\ Contains(dead_nodes, NodeId("A", r.paragraph_name))
          /\ BlockEliminated("A", r)
          /\ r.called_programs = <<"X">>
          /\ \A q \in BlockRecords("A") \ {r} : q.called_programs # <<"X">>
          /\ HasEdge(outer_cfg, "A", "X")

\* C24: when the forward workflow has ended, documented_nodes has an entry
\* for every node id that initialize_state listed in nodes_to_process: the
\* steps, the programs and the paragraphs left in the inner graphs.
C24_EveryListedNodeDocumented ==
    pc = "end" =>
        \A n \in Range(NodesForProcessing(outer_cfg, inner_cfg, 1)) :
            DictHas(documented_nodes, n)

\* the list that initialize_state makes of the graphs returned
ForwardList == NodesForProcessing(outer_cfg, inner_cfg, 1)

\* the positions of a run of the forward workflow
ForwardPcs ==
    {"select_next_node", "document_node", "document_node_await",
     "save_documentation", "end"}

\* the number of nodes that the run has selected
Selected == Len(ForwardList) - Len(nodes_to_process)

\* C25: the forward workflow selects the elements of the initial list one by
\* one in list order, each once, with one document_node step after each
\* selection; when the list is empty save_documentation runs, once, and the
\* run ends with it; save_documentation never runs while the list is
\* non-empty; and no node that is due is left out.
C25_ForwardLoop ==
    /\ [](pc \in ForwardPcs =>
            /\ Selected \in 0..Len(ForwardList)
            /\ nodes_to_process = SubSeq(ForwardList, Selected + 1, Len(ForwardList))
            /\ pc \in {"document_node", "document_node_await"} =>
                   Selected >= 1 /\ current_node_id = Some(ForwardList[Selected])
            /\ pc \in {"save_documentation", "end"} => nodes_to_process = <<>>)
    /\ [][(pc = "select_next_node" /\ nodes_to_process # <<>>) =>
              /\ pc' = "document_node"
              /\ current_node_id' = Some(Head(nodes_to_process))
              /\ nodes_to_process' = Tail(nodes_to_process)]_vars
    /\ [][(pc = "select_next_node" /\ nodes_to_process = <<>>) =>
              pc' = "save_documentation" /\ nodes_to_process' = <<>>]_vars
    /\ [][(pc = "document_node") =>
              /\ pc' \in {"document_node_await", "select_next_node"}
              /\ nodes_to_process' = nodes_to_process]_vars
    /\ [][(pc = "document_node_await") =>
              /\ pc' = "select_next_node"
              /\ nodes_to_process' = nodes_to_process
              /\ current_node_id' = current_node_id]_vars
    /\ [][(pc = "save_documentation") =>
              supersteps' = supersteps + 1 /\ pc' \in {"end", "raised"}]_vars
    /\ [][(pc' = "save_documentation") => pc = "select_next_node"]_vars

\* C26: in the reverse workflow on an acyclic outer graph, when a node is
\* about to be documented every direct successor of it already has an entry
\* in generated_documentation, and the context of a node that has successors
\* lists the documentation of all of them.
C26_SuccessorsDocumentedFirst ==
    (/\ pc = "reverse_document_node"
     /\ ~Falsy(current_outer_node_id)
     /\ ~HasCycle(outer_cfg))
        => /\ \A s \in Successors(outer_cfg, {current_outer_node_id[1]}) :
                  DictHas(generated_documentation, s)
           /\ outer_cfg.succ[current_outer_node_id[1]] # <<>> =>
                  context_from_future_nodes(current_outer_node_id[1],
                                            generated_documentation)
                      = outer_cfg.succ[current_outer_node_id[1]]

\* C26 witness: on an acyclic outer graph the node about to be documented
\* has a successor that has a successor itself, and both are documented.
C26_Witness ==
    /\ pc = "reverse_document_node"
    /\ ~Falsy(current_outer_node_id)
    /\ ~HasCycle(outer_cfg)
    /\ \E s \in Successors(outer_cfg, {current_outer_node_id[1]}) :
          /\ DictHas(generated_documentation, s)
          /\ \E t \in Successors(outer_cfg, {s}) : DictHas(generated_documentation, t)

\* C27: an inner graph holds at most one edge per ordered pair of blocks.
\* When construction has finished, every pair is listed once among the
\* edges, and for a block that both PERFORMs and GOTOs the same target the
\* one edge from the block to the target has the type GOTO.
C27_GotoOverwritesPerform ==
    pc = "dead_code" =>
        /\ \A e \in EdgeSet(inner) :
              Cardinality({i \in 1..Len(Edges(inner)) : Edges(inner)[i] = e}) = 1
        /\ Len(Edges(inner)) = NumberOfEdges(inner)
        /\ \A r \in BlockRecords(cobol_programs[pi].k) :
              \A t \in Range(TargetNames(r.perform_targets)) \cap Range(r.goto_targets) :
                  LET src == NodeId(cobol_programs[pi].k, r.paragraph_name)
                      dst == NodeId(cobol_programs[pi].k, t)
                  IN  /\ HasEdge(inner, src, dst)
                      /\ inner.etype[<<src, dst>>] = "GOTO"
                      /\ Cardinality({j \in 1..Len(inner.succ[src]) :
                                         inner.succ[src][j] = dst}) = 1

\* C27 witness: the inner graph has just been built from a batch in which P
\* performs Q and goes to Q, and another block performs a target without
\* going to it.
C27_Witness ==
    /\ pc = "dead_code"
    /\ \E r \in BlockRecords("A") :
          /\ r.paragraph_name = "P"
          /\ TargetNames(r.perform_targets) = <<"Q">>
          /\ r.goto_targets = <<"Q">>
    /\ inner.etype[<<"A:P", "A:Q">>] = "GOTO"
    /\ \E e \in EdgeSet(inner) : inner.etype[e] = "PERFORM"

\* C28: every time should_continue is evaluated after select_next_node it
\* returns "document_node" or END, never "select_next_node", which the
\* mapping of the conditional edges does not hold: the workflow goes on to
\* document_node or to save_documentation, and current_node_id is None after
\* a selection only when nodes_to_process is empty.
C28_RouteIsMapped ==
    [][(pc = "select_next_node") =>
          /\ should_continue(current_node_id', nodes_to_process')
                 \in {"document_node", "END"}
          /\ pc' \in {"document_node", "save_documentation"}
          /\ current_node_id' = None => nodes_to_process' = <<>>]_vars

\* C28 witness: after three nodes or more were documented a selection on the
\* empty list has left current_node_id None and led to save_documentation.
C28_Witness ==
    /\ pc = "save_documentation"
    /\ current_node_id = None
    /\ nodes_to_process = <<>>
    /\ Len(documented_nodes) >= 3

====
